---- MODULE Spec2Model ----
(***************************************************************************)
(* Monte Carlo portfolio simulator (simulateMonteCarlo) of mf-dashboard.   *)
(*                                                                         *)
(* Number representation.  The source computes in IEEE doubles; the model  *)
(* computes in fixed point with floor rounding:                            *)
(*   - a currency amount x is the integer x * Unit (sub-units);            *)
(*   - a dimensionless factor f (growth factor, gain ratio, deflator) is   *)
(*     the integer f * FP;                                                 *)
(*   - percentages (annualReturnRate, volatility, ...) are integers;       *)
(*   - a probability or rate k / NUM_SIMULATIONS is the integer k.         *)
(* Math.exp, Math.log, Math.sqrt and Math.cos are computed by short series *)
(* or tables (ExpFP, LnFP, RadiusOf, CosOf).                               *)
(* The 32-bit generator mulberry32 is computed bit for bit; a 32-bit word  *)
(* is the pair <<high 16 bits, low 16 bits>>.                              *)
(***************************************************************************)
EXTENDS Integers, Sequences, FiniteSets, TLC

\* ---------------------------------------------------------------- bounds
\* Number of simulated paths (5000 in the source).
NUM_SIMULATIONS == 4
\* Largest contributionYears / withdrawalStartYear / withdrawalYears drawn.
MaxContributionYears == 2
MaxWithdrawalStartYear == 1
MaxWithdrawalYears == 1
\* Fixed-point resolutions: sub-units per currency unit, and factor scale.
Unit == 100
FP == 1000
\* Largest number of user operations on the simulator form in one behaviour.
MaxOperations == 4
\* Clock steps in one debounce delay: a step is DEBOUNCE_MS / DebounceTicks.
DebounceTicks == 3
\* Width of the timeline bar, in pointer units.
BarWidth == 7

\* ------------------------------------------------------ program constants
SEED == 42
MONTHS == 12
NUM_MAIN_BINS == 10
MAX_TAIL_BINS == 5
\* TAX_RATE = 0.20315 as TAX_RATE_NUM / TAX_RATE_DEN
TAX_RATE_NUM == 20315
TAX_RATE_DEN == 100000
\* use-monte-carlo-simulator: delay of the debounce timer, in ms
DEBOUNCE_MS == 300
\* CompoundSimulator: defaults of the two withdrawal selectors
defaultWithdrawalRate == 4
defaultMonthlyWithdrawal == 200000
\* InteractiveTimelineBar: years shown by the bar
displayMax == 70

\* ------------------------------------------------------------------ state
VARIABLES
  pc,                       \* "idle" | "yearLoop" | "monthLoop" | "done"
  input,                    \* the argument of the running invocation
  rng,                      \* state s of this invocation's generator
  paths,                    \* Float64Array: value of every path (sub-units)
  sorted,                   \* Float64Array: scratch copy for sorting
  costBasis,                \* Float64Array: cost basis of every path
  yearlyWithdrawals,        \* Float64Array, or Absent outside rate mode
  initialWithdrawalAmount,  \* Float64Array, or Absent outside rate mode
  totalPrincipal,
  yearlyData,               \* sequence of MonteCarloYearData
  rateDeflationMultiplier,  \* scaled by FP
  rateWithdrawalStarted,
  currentMonthlyWithdrawal,
  year,
  month,
  result,                   \* the returned MonteCarloResult, or Absent
  returned,                 \* <<input, result>> of the invocations returned so far
  \* CompoundSimulator: the state the hook's input is built from
  withdrawalMode,           \* "amount" | "rate"
  taxFree,
  volatility,
  \* useMonteCarloSimulator
  hookMounted,              \* "initial" | "mounted" | "unmounted"
  hookResult,               \* the state `result` of the hook
  timerRef,                 \* id of the last timer set, 0 for undefined
  isFirstRef,
  immediateNextRef,
  effectCleanup,            \* the last effect run returned its cleanup
  timers,                   \* the host's pending timers: [id, input, left (ms)]
  nextTimerId,
  sinceChange,              \* ms since the effect last ran, up to DEBOUNCE_MS
  lastOperation,            \* the operation that acted last
  operations,               \* number of user operations so far
  \* CompoundSimulator / InteractiveTimelineBar
  contributionYears,
  withdrawalStartYear,
  withdrawalYears,
  draggingRef               \* DragHandle, "none" for null

\* the simulation engine
engineVars ==
  <<pc, input, rng, paths, sorted, costBasis, yearlyWithdrawals,
    initialWithdrawalAmount, totalPrincipal, yearlyData,
    rateDeflationMultiplier, rateWithdrawalStarted, currentMonthlyWithdrawal,
    year, month, result, returned>>

\* the hook and the form state it reads
hookVars ==
  <<withdrawalMode, taxFree, volatility, hookMounted, hookResult, timerRef,
    isFirstRef, immediateNextRef, effectCleanup, timers, nextTimerId,
    sinceChange, lastOperation, operations>>

\* the timeline bar
timelineVars ==
  <<contributionYears, withdrawalStartYear, withdrawalYears, draggingRef>>

\* the calling layer
uiVars == <<hookVars, timelineVars>>

vars == <<engineVars, uiVars>>

\* ------------------------------------------------------- 32-bit arithmetic
W16 == 65536

\* XOR of two 4-bit digits: XorDigit[x + 1][y + 1] = x ^ y
XorDigit ==
  <<<<0, 1, 2, 3, 4, 5, 6, 7, 8, 9, 10, 11, 12, 13, 14, 15>>,
    <<1, 0, 3, 2, 5, 4, 7, 6, 9, 8, 11, 10, 13, 12, 15, 14>>,
    <<2, 3, 0, 1, 6, 7, 4, 5, 10, 11, 8, 9, 14, 15, 12, 13>>,
    <<3, 2, 1, 0, 7, 6, 5, 4, 11, 10, 9, 8, 15, 14, 13, 12>>,
    <<4, 5, 6, 7, 0, 1, 2, 3, 12, 13, 14, 15, 8, 9, 10, 11>>,
    <<5, 4, 7, 6, 1, 0, 3, 2, 13, 12, 15, 14, 9, 8, 11, 10>>,
    <<6, 7, 4, 5, 2, 3, 0, 1, 14, 15, 12, 13, 10, 11, 8, 9>>,
    <<7, 6, 5, 4, 3, 2, 1, 0, 15, 14, 13, 12, 11, 10, 9, 8>>,
    <<8, 9, 10, 11, 12, 13, 14, 15, 0, 1, 2, 3, 4, 5, 6, 7>>,
    <<9, 8, 11, 10, 13, 12, 15, 14, 1, 0, 3, 2, 5, 4, 7, 6>>,
    <<10, 11, 8, 9, 14, 15, 12, 13, 2, 3, 0, 1, 6, 7, 4, 5>>,
    <<11, 10, 9, 8, 15, 14, 13, 12, 3, 2, 1, 0, 7, 6, 5, 4>>,
    <<12, 13, 14, 15, 8, 9, 10, 11, 4, 5, 6, 7, 0, 1, 2, 3>>,
    <<13, 12, 15, 14, 9, 8, 11, 10, 5, 4, 7, 6, 1, 0, 3, 2>>,
    <<14, 15, 12, 13, 10, 11, 8, 9, 6, 7, 4, 5, 2, 3, 0, 1>>,
    <<15, 14, 13, 12, 11, 10, 9, 8, 7, 6, 5, 4, 3, 2, 1, 0>>>>

\* XOR of two bytes
XorByte(x, y) ==
  (XorDigit[(x \div 16) + 1][(y \div 16) + 1] * 16) + XorDigit[(x % 16) + 1][(y % 16) + 1]

\* XOR of two 16-bit halves
Xor16(x, y) ==
  (XorByte(x \div 256, y \div 256) * 256) + XorByte(x % 256, y % 256)

\* a ^ b
Xor32(a, b) == <<Xor16(a[1], b[1]), Xor16(a[2], b[2])>>

\* OR of two 4-bit digits: OrDigit[x + 1][y + 1] = x | y
OrDigit ==
  <<<<0, 1, 2, 3, 4, 5, 6, 7, 8, 9, 10, 11, 12, 13, 14, 15>>,
    <<1, 1, 3, 3, 5, 5, 7, 7, 9, 9, 11, 11, 13, 13, 15, 15>>,
    <<2, 3, 2, 3, 6, 7, 6, 7, 10, 11, 10, 11, 14, 15, 14, 15>>,
    <<3, 3, 3, 3, 7, 7, 7, 7, 11, 11, 11, 11, 15, 15, 15, 15>>,
    <<4, 5, 6, 7, 4, 5, 6, 7, 12, 13, 14, 15, 12, 13, 14, 15>>,
    <<5, 5, 7, 7, 5, 5, 7, 7, 13, 13, 15, 15, 13, 13, 15, 15>>,
    <<6, 7, 6, 7, 6, 7, 6, 7, 14, 15, 14, 15, 14, 15, 14, 15>>,
    <<7, 7, 7, 7, 7, 7, 7, 7, 15, 15, 15, 15, 15, 15, 15, 15>>,
    <<8, 9, 10, 11, 12, 13, 14, 15, 8, 9, 10, 11, 12, 13, 14, 15>>,
    <<9, 9, 11, 11, 13, 13, 15, 15, 9, 9, 11, 11, 13, 13, 15, 15>>,
    <<10, 11, 10, 11, 14, 15, 14, 15, 10, 11, 10, 11, 14, 15, 14, 15>>,
    <<11, 11, 11, 11, 15, 15, 15, 15, 11, 11, 11, 11, 15, 15, 15, 15>>,
    <<12, 13, 14, 15, 12, 13, 14, 15, 12, 13, 14, 15, 12, 13, 14, 15>>,
    <<13, 13, 15, 15, 13, 13, 15, 15, 13, 13, 15, 15, 13, 13, 15, 15>>,
    <<14, 15, 14, 15, 14, 15, 14, 15, 14, 15, 14, 15, 14, 15, 14, 15>>,
    <<15, 15, 15, 15, 15, 15, 15, 15, 15, 15, 15, 15, 15, 15, 15, 15>>>>

\* a | c for a constant c < 2^8
OrLow(a, c) ==
  LET b == a[2] % 256
  IN <<a[1],
       (a[2] - b) + (OrDigit[(b \div 16) + 1][(c \div 16) + 1] * 16)
                  + OrDigit[(b % 16) + 1][(c % 16) + 1]>>

\* 2^k for k in 0..16: Pow2[k + 1]
Pow2 == <<1, 2, 4, 8, 16, 32, 64, 128, 256, 512, 1024, 2048, 4096, 8192,
          16384, 32768, 65536>>

\* a >>> k, 0 < k < 16
Shr32(a, k) ==
  <<a[1] \div Pow2[k + 1],
    (a[2] \div Pow2[k + 1]) + ((a[1] % Pow2[k + 1]) * Pow2[17 - k])>>

\* (a + b) | 0
Add32(a, b) ==
  LET lo == a[2] + b[2]
  IN <<(a[1] + b[1] + (lo \div W16)) % W16, lo % W16>>

\* Math.imul(a, b): the low 32 bits of the product
Imul(a, b) ==
  LET l1 == a[2] \div 256
      l0 == a[2] % 256
      m1 == b[2] \div 256
      m0 == b[2] % 256
      mid == (l1 * m0) + (l0 * m1)
      low == (l0 * m0) + ((mid % 256) * 256)
      lolo_hi == (l1 * m1) + (mid \div 256) + (low \div W16)
      cross(h, l) == (((((h \div 256) * l) % 256) * 256) + ((h % 256) * l)) % W16
  IN <<(lolo_hi + cross(a[1], b[2]) + cross(b[1], a[2])) % W16, low % W16>>

\* ------------------------------------------------------------- generator
\* Variant: the seed is taken from a counter that outlives the invocation.
mulberry32Counted(seed) ==
  <<(seed + Cardinality(returned)) \div W16, (seed + Cardinality(returned)) % W16>>

\* mulberry32(seed): the initial generator state, s = seed | 0
mulberry32(seed) == <<seed \div W16, seed % W16>>

\* let t = Math.imul(s ^ (s >>> 15), 1 | s)
Scramble1(s) == Imul(Xor32(s, Shr32(s, 15)), OrLow(s, 1))

\* t = (t + Math.imul(t ^ (t >>> 7), 61 | t)) ^ t
Scramble2(t) == Xor32(Add32(t, Imul(Xor32(t, Shr32(t, 7)), OrLow(t, 61))), t)

\* (t ^ (t >>> 14)) >>> 0
Scramble3(t) == Xor32(t, Shr32(t, 14))

\* s = (s + 0x6d2b79f5) | 0
rngAdvance(s) == Add32(s, <<27947, 31221>>)

\* One call of the closure returned by mulberry32: the new state s and the
\* 32-bit word u whose value / 2^32 is the uniform deviate.
rngNext(s) ==
  [s |-> rngAdvance(s), u |-> Scramble3(Scramble2(Scramble1(rngAdvance(s))))]

\* --------------------------------------------------------- numeric helpers
Max(a, b) == IF a >= b THEN a ELSE b
Min(a, b) == IF a <= b THEN a ELSE b

\* Math.round of an amount in sub-units, to whole currency units
Round(v) == ((2 * v) + Unit) \div (2 * Unit)

\* Math.exp(x), x and the result scaled by FP: 1 + x + x^2/2 + x^3/6 + x^4/24
ExpFP(x) ==
  LET t4 == FP + (x \div 4)
      t3 == FP + ((x * t4) \div (3 * FP))
      t2 == FP + ((x * t3) \div (2 * FP))
  IN FP + ((x * t2) \div FP)

\* Math.log(1 + r), r and the result scaled by FP: r - r^2/2 + r^3/3
LnFP(r) ==
  LET r2 == (r * r) \div FP
      r3 == (r2 * r) \div FP
  IN r - (r2 \div 2) + (r3 \div 3)

\* Math.pow(1 + ri, 1 / 12) for ri = pct / 100, scaled by FP
PowTwelfth(pct) == ExpFP(LnFP((pct * FP) \div 100) \div MONTHS)

\* Math.sqrt(12) * 10000
SQRT12 == 34641

\* Math.sqrt(-2 * Math.log(u1 || 1e-10)) rounded to the nearest integer,
\* from the high 16 bits of u1 (thresholds are exp(-k^2/2) * 2^16 at
\* k = 2.5, 1.5, 0.5).  u1 = 0 is replaced by 1e-10, which is in the
\* largest class as well.
RadiusOf(u1) ==
  IF u1[1] < 2877 THEN 3
  ELSE IF u1[1] < 21280 THEN 2
  ELSE IF u1[1] < 57836 THEN 1
  ELSE 0

\* Math.cos(2 * Math.PI * u2) rounded to the nearest integer, from the high
\* 16 bits of u2: 1 within 60 degrees of 0, -1 within 60 degrees of 180.
CosOf(u2) ==
  IF u2[1] < 10923 \/ u2[1] >= 54613 THEN 1
  ELSE IF u2[1] >= 21846 /\ u2[1] < 43691 THEN -1
  ELSE 0

\* Math.sqrt(-2 * Math.log(u1 || 1e-10)) * Math.cos(2 * Math.PI * u2)
BoxMuller(u1, u2) == RadiusOf(u1) * CosOf(u2)

\* normalRandom(rng): two calls of rng; the new generator state s and the
\* deviate z.
normalRandom(s) ==
  [s |-> rngAdvance(rngAdvance(s)),
   z |-> BoxMuller(rngNext(s).u, rngNext(rngAdvance(s)).u)]

\* Float64Array.prototype.sort(): ascending numeric order
RECURSIVE InsertSorted(_, _)
InsertSorted(x, seq) ==
  IF seq = <<>> THEN <<x>>
  ELSE IF x <= Head(seq) THEN <<x>> \o seq
  ELSE <<Head(seq)>> \o InsertSorted(x, Tail(seq))

\* Variant: the copy is not sorted.
SortAscOmitted(seq) == seq

RECURSIVE SortAsc(_)
SortAsc(seq) ==
  IF seq = <<>> THEN <<>> ELSE InsertSorted(Head(seq), SortAsc(Tail(seq)))

\* new Float64Array(NUM_SIMULATIONS).fill(x)
Filled(x) == [i \in 1..NUM_SIMULATIONS |-> x]

\* Math.floor(NUM_SIMULATIONS * q) for q = pct / 100, as a 1-based index
PctIndex(pct) == ((NUM_SIMULATIONS * pct) \div 100) + 1

\* ------------------------------------------------------------------ input
\* An optional field is <<>> when absent and <<v>> when populated.
Absent == <<>>
IsPresent(opt) == opt # <<>>

\* MonteCarloInput: amounts in currency units, rates in percent.  The main
\* inputs drawn are two families: every schedule, amount and withdrawal mode with
\* the default options, and every combination of the withdrawal options on
\* three schedules (withdrawal after, from the start of, and inside the
\* contribution years).
ScheduleInputs ==
  [initialAmount : {0, 100},
   monthlyContribution : {0, 10},
   annualReturnRate : {5},
   volatility : {0, 60},
   inflationRate : {0},
   contributionYears : 0..MaxContributionYears,
   withdrawalStartYear : 0..MaxWithdrawalStartYear,
   withdrawalYears : 0..MaxWithdrawalYears,
   taxFree : {FALSE},
   monthlyWithdrawal : {Absent, <<30>>},
   annualWithdrawalRate : {Absent, <<0>>, <<120>>},
   expenseRatio : {1},
   inflationAdjustedWithdrawal : {FALSE},
   monthlyPensionIncome : {0}]

OptionInputs ==
  {in \in [initialAmount : {100},
           monthlyContribution : {10},
           annualReturnRate : {5},
           volatility : {0, 60},
           inflationRate : {0, 24},
           contributionYears : {0, 1, MaxContributionYears},
           withdrawalStartYear : {0, MaxWithdrawalStartYear},
           withdrawalYears : {MaxWithdrawalYears},
           taxFree : BOOLEAN,
           monthlyWithdrawal : {Absent, <<30>>},
           annualWithdrawalRate : {Absent, <<0>>, <<120>>},
           expenseRatio : {1},
           inflationAdjustedWithdrawal : BOOLEAN,
           monthlyPensionIncome : {0, 5}] :
     in.contributionYears = MaxContributionYears => in.withdrawalStartYear = 0}

\* A third family: a few currency units that only grow for a year, so that
\* the final values stay below 5 currency units.
SmallAmountInputs ==
  [initialAmount : {3},
   monthlyContribution : {0},
   annualReturnRate : {5},
   volatility : {0, 60},
   inflationRate : {0},
   contributionYears : {1},
   withdrawalStartYear : {0},
   withdrawalYears : {0},
   taxFree : {FALSE},
   monthlyWithdrawal : {Absent},
   annualWithdrawalRate : {Absent},
   expenseRatio : {1},
   inflationAdjustedWithdrawal : {FALSE},
   monthlyPensionIncome : {0}]

MonteCarloInput == ScheduleInputs \cup OptionInputs \cup SmallAmountInputs

\* ------------------------------------------- per-invocation derived values
\* monthlyWithdrawal = 0 default
monthlyWithdrawalOf(in) ==
  IF IsPresent(in.monthlyWithdrawal) THEN in.monthlyWithdrawal[1] * Unit ELSE 0

\* Variant: the tax is charged in the tax-free mode and not otherwise.
taxRateSwapped(in) == IF in.taxFree THEN TAX_RATE_NUM ELSE 0

\* taxRate = taxFree ? 0 : TAX_RATE (numerator over TAX_RATE_DEN)
taxRate(in) == IF in.taxFree THEN 0 ELSE TAX_RATE_NUM

\* monthlyDrift = (mu - ri - sigma^2 / 2) / 12, scaled by FP
monthlyDrift(in) ==
  ((((in.annualReturnRate - in.expenseRatio - in.inflationRate) * 200)
      - (in.volatility * in.volatility)) * FP) \div (20000 * MONTHS)

\* Variant: the volatility is kept at 1% or more.
monthlySigmaGuarded(in) == (Max(in.volatility, 1) * FP * 100) \div SQRT12

\* monthlySigma = sigma / Math.sqrt(12), scaled by FP
monthlySigma(in) == (in.volatility * FP * 100) \div SQRT12

\* Variant: a populated monthlyWithdrawal selects the fixed-amount mode.
isRateModeAmountFirst(in) ==
  /\ IsPresent(in.annualWithdrawalRate)
  /\ in.annualWithdrawalRate[1] > 0
  /\ ~IsPresent(in.monthlyWithdrawal)

\* isRateMode = annualWithdrawalRate != null && annualWithdrawalRate > 0
isRateMode(in) ==
  IsPresent(in.annualWithdrawalRate) /\ in.annualWithdrawalRate[1] > 0

\* monthlyInflationFactor, scaled by FP
monthlyInflationFactor(in) ==
  IF ~isRateMode(in) /\ in.inflationAdjustedWithdrawal
  THEN PowTwelfth(in.inflationRate) ELSE FP

\* monthlyNominalDeflator, scaled by FP
monthlyNominalDeflator(in) ==
  IF isRateMode(in) /\ in.inflationRate > 0
  THEN (FP * FP) \div PowTwelfth(in.inflationRate) ELSE FP

\* Variant: the withdrawal years are not counted from the start year.
totalYearsUnshifted(in) == Max(in.contributionYears, in.withdrawalYears)

\* totalYears = Math.max(contributionYears, withdrawalStartYear + withdrawalYears)
totalYears(in) ==
  Max(in.contributionYears, in.withdrawalStartYear + in.withdrawalYears)

\* const isContributing = year <= contributionYears
isContributingIn(in, y) == y <= in.contributionYears

\* Variant: the start year itself counts as withdrawing.
isWithdrawingInInclusive(in, y) ==
  y >= in.withdrawalStartYear /\ y <= in.withdrawalStartYear + in.withdrawalYears

\* const isWithdrawing = year > withdrawalStartYear && year <= start + years
isWithdrawingIn(in, y) ==
  y > in.withdrawalStartYear /\ y <= in.withdrawalStartYear + in.withdrawalYears

\* ---------------------------------------------------------- initial state
\* No invocation is running: nothing is allocated.
NoInvocation ==
  /\ pc = "idle"
  /\ input = Absent
  /\ rng = Absent
  /\ paths = Absent
  /\ sorted = Absent
  /\ costBasis = Absent
  /\ yearlyWithdrawals = Absent
  /\ initialWithdrawalAmount = Absent
  /\ totalPrincipal = 0
  /\ yearlyData = <<>>
  /\ rateDeflationMultiplier = FP
  /\ rateWithdrawalStarted = FALSE
  /\ currentMonthlyWithdrawal = 0
  /\ year = 0
  /\ month = 0
  /\ result = Absent

\* CompoundSimulator before its first render: the useState defaults, and the
\* refs of the hook as useRef creates them.
Constructed ==
  /\ withdrawalMode = "amount"
  /\ taxFree = FALSE
  /\ volatility = 15
  /\ hookMounted = "initial"
  /\ hookResult = [simulated |-> Absent]
  /\ timerRef = 0
  /\ isFirstRef = TRUE
  /\ immediateNextRef = FALSE
  /\ effectCleanup = FALSE
  /\ timers = {}
  /\ nextTimerId = 1
  /\ sinceChange = 0
  /\ lastOperation = "none"
  /\ operations = 0
  /\ contributionYears = 30
  /\ withdrawalStartYear = 30
  /\ withdrawalYears = 30
  /\ draggingRef = "none"

Init == NoInvocation /\ returned = {} /\ Constructed

\* ----------------------------------------------------------- one path step
\* paths[i] * Math.exp(monthlyDrift + monthlySigma * z)
Grow(value, z, in) ==
  (value * ExpFP(monthlyDrift(in) + (monthlySigma(in) * z))) \div FP

\* Variant: the contribution is credited in every month.
ContributeAlways(x, in, isContributing) == x + (in.monthlyContribution * Unit)

\* if (isContributing) x += monthlyContribution   (value and cost basis alike)
Contribute(x, in, isContributing) ==
  IF isContributing THEN x + (in.monthlyContribution * Unit) ELSE x

\* Variant: the amount is taken anew from the value in every month.
LockInEveryMonth(current, v, in) ==
  ((v * in.annualWithdrawalRate[1]) \div 100) \div MONTHS

\* initialWithdrawalAmount[i] after the lock-in test, for a path of value v
LockIn(current, v, in) ==
  IF current = 0
  THEN ((v * in.annualWithdrawalRate[1]) \div 100) \div MONTHS
  ELSE current

\* Variant: a pension above the need is credited to the path.
NetWithdrawalUnfloored(baseWithdrawal, in) ==
  baseWithdrawal - (in.monthlyPensionIncome * Unit)

\* netWithdrawal = Math.max(baseWithdrawal - monthlyPensionIncome, 0)
NetWithdrawal(baseWithdrawal, in) ==
  Max(baseWithdrawal - (in.monthlyPensionIncome * Unit), 0)

\* gainRatio = paths[i] > costBasis[i] ? (paths[i] - costBasis[i]) / paths[i] : 0
GainRatio(v, cb) == IF v > cb THEN ((v - cb) * FP) \div v ELSE 0

\* taxOnWithdrawal = netWithdrawal * gainRatio * taxRate
TaxOnWithdrawal(net, v, cb, in) ==
  (((net * GainRatio(v, cb)) \div FP) * taxRate(in)) \div TAX_RATE_DEN

\* withdrawalRatio = Math.min(netWithdrawal / paths[i], 1)
WithdrawalRatio(net, v) == Min((net * FP) \div v, FP)

\* Variant: the basis is reduced by the amount withdrawn.
BasisAfterSubtracting(net, v, cb) == cb - net

\* costBasis[i] *= 1 - withdrawalRatio
BasisAfter(net, v, cb) == (cb * (FP - WithdrawalRatio(net, v))) \div FP

\* Variant: the value is not floored at 0.
ValueAfterUnfloored(net, v, cb, in) == v - net - TaxOnWithdrawal(net, v, cb, in)

\* paths[i] = paths[i] - netWithdrawal - taxOnWithdrawal; if (< 0) paths[i] = 0
ValueAfter(net, v, cb, in) ==
  Max(v - net - TaxOnWithdrawal(net, v, cb, in), 0)

\* The withdrawal branch for path i of value v > 0 and cost basis cb, whose
\* lock-in amount (rate mode) is iwa.
\* st = [rng, paths, costBasis, yearlyWithdrawals, initialWithdrawalAmount].
WithdrawFrom(st, i, v, cb, iwa, net, in) ==
  [rng |-> st.rng,
   paths |-> [st.paths EXCEPT ![i] = ValueAfter(net, v, cb, in)],
   costBasis |-> [st.costBasis EXCEPT ![i] = BasisAfter(net, v, cb)],
   yearlyWithdrawals |->
     IF IsPresent(st.yearlyWithdrawals)
     THEN [st.yearlyWithdrawals EXCEPT ![i] = @ + net]
     ELSE st.yearlyWithdrawals,
   initialWithdrawalAmount |->
     IF isRateMode(in) /\ IsPresent(st.initialWithdrawalAmount)
     THEN [st.initialWithdrawalAmount EXCEPT ![i] = iwa]
     ELSE st.initialWithdrawalAmount]

\* baseWithdrawal of path i: the deflated lock-in amount in rate mode, the
\* running amount otherwise.
BaseWithdrawal(iwa, in, rateBuffer, cmw, rdm) ==
  IF isRateMode(in) /\ IsPresent(rateBuffer) THEN (iwa * rdm) \div FP ELSE cmw

\* if (isWithdrawing && paths[i] > 0) { ... } for path i of value v
WithdrawIfDue(st, i, v, cb, iwa, in, isWithdrawing, cmw, rdm) ==
  IF isWithdrawing /\ v > 0
  THEN WithdrawFrom(st, i, v, cb, iwa,
                    NetWithdrawal(BaseWithdrawal(iwa, in, st.initialWithdrawalAmount,
                                                 cmw, rdm), in),
                    in)
  ELSE [st EXCEPT !.paths[i] = v, !.costBasis[i] = cb]

\* Path i after growth by the deviate z and the contribution.
AfterGrowth(st, i, v, in, isContributing, isWithdrawing, cmw, rdm) ==
  WithdrawIfDue(st, i, v, Contribute(st.costBasis[i], in, isContributing),
                IF isRateMode(in) /\ IsPresent(st.initialWithdrawalAmount)
                THEN LockIn(st.initialWithdrawalAmount[i], v, in) ELSE 0,
                in, isWithdrawing, cmw, rdm)

\* Path i with the deviate n = [s, z] drawn for it.
WithDeviate(st, i, n, in, isContributing, isWithdrawing, cmw, rdm) ==
  AfterGrowth([st EXCEPT !.rng = n.s], i,
              Contribute(Grow(st.paths[i], n.z, in), in, isContributing),
              in, isContributing, isWithdrawing, cmw, rdm)

\* Variant: no deviate is drawn for a path that is at 0 and gets no contribution.
PathStepSkippingDepleted(st, i, in, isContributing, isWithdrawing, cmw, rdm) ==
  IF st.paths[i] = 0 /\ ~isContributing
  THEN st
  ELSE WithDeviate(st, i, normalRandom(st.rng), in, isContributing, isWithdrawing, cmw, rdm)

\* Body of the loop over i: draw, growth, contribution, withdrawal of path i.
PathStep(st, i, in, isContributing, isWithdrawing, cmw, rdm) ==
  WithDeviate(st, i, normalRandom(st.rng), in, isContributing, isWithdrawing, cmw, rdm)

\* for (let i = 0; i < NUM_SIMULATIONS; i++) { ... }
RECURSIVE PathLoop(_, _, _, _, _, _, _)
PathLoop(st, i, in, isContributing, isWithdrawing, cmw, rdm) ==
  IF i > NUM_SIMULATIONS THEN st
  ELSE PathLoop(PathStep(st, i, in, isContributing, isWithdrawing, cmw, rdm),
                i + 1, in, isContributing, isWithdrawing, cmw, rdm)

\* ------------------------------------------------------------ invocation
\* Variant: the flags of year 0 come from the schedule like any other year's.
InitialSnapshotScheduled(in) ==
  [year |-> 0,
   p10 |-> in.initialAmount,
   p25 |-> in.initialAmount,
   p50 |-> in.initialAmount,
   p75 |-> in.initialAmount,
   p90 |-> in.initialAmount,
   principal |-> in.initialAmount,
   isContributing |-> isContributingIn(in, 0),
   isWithdrawing |-> isWithdrawingIn(in, 0)]

\* The snapshot of year 0 pushed before the loop.
InitialSnapshot(in) ==
  [year |-> 0,
   p10 |-> in.initialAmount,
   p25 |-> in.initialAmount,
   p50 |-> in.initialAmount,
   p75 |-> in.initialAmount,
   p90 |-> in.initialAmount,
   principal |-> in.initialAmount,
   isContributing |-> FALSE,
   isWithdrawing |-> FALSE]

\* simulateMonteCarlo(in): everything up to the loop over the years.
Invoke(in) ==
  /\ pc = "idle"
  /\ pc' = "yearLoop"
  /\ input' = in
  /\ rng' = mulberry32(SEED)
  /\ paths' = Filled(in.initialAmount * Unit)
  /\ sorted' = Filled(0)
  /\ totalPrincipal' = in.initialAmount * Unit
  /\ yearlyData' = <<InitialSnapshot(in)>>
  /\ costBasis' = Filled(in.initialAmount * Unit)
  /\ yearlyWithdrawals' = IF isRateMode(in) THEN Filled(0) ELSE Absent
  /\ initialWithdrawalAmount' = IF isRateMode(in) THEN Filled(0) ELSE Absent
  /\ rateDeflationMultiplier' = FP
  /\ rateWithdrawalStarted' = FALSE
  /\ currentMonthlyWithdrawal' = monthlyWithdrawalOf(in)
  /\ year' = 1
  /\ month' = 0
  /\ result' = Absent
  /\ UNCHANGED <<returned, uiVars>>

\* Variant: the yearly buffer keeps accumulating over the years.
YearlyWithdrawalsKept(yw) == yw

\* if (yearlyWithdrawals) yearlyWithdrawals.fill(0)
YearlyWithdrawalsReset(yw) == IF IsPresent(yw) THEN Filled(0) ELSE yw

\* Head of the body of the loop over the years.
BeginYear ==
  /\ pc = "yearLoop"
  /\ year <= totalYears(input)
  /\ pc' = "monthLoop"
  /\ yearlyWithdrawals' = YearlyWithdrawalsReset(yearlyWithdrawals)
  /\ month' = 0
  /\ UNCHANGED <<input, rng, paths, sorted, costBasis, initialWithdrawalAmount,
                 totalPrincipal, yearlyData, rateDeflationMultiplier,
                 rateWithdrawalStarted, currentMonthlyWithdrawal, year, result,
                 returned, uiVars>>

\* Variant: the amount is adjusted in the months before the withdrawals too.
AdjustedWithdrawalEveryMonth(in, isWithdrawing, cmw) ==
  IF ~isRateMode(in) /\ in.inflationAdjustedWithdrawal
  THEN (cmw * monthlyInflationFactor(in)) \div FP
  ELSE cmw

\* currentMonthlyWithdrawal after the inflation adjustment at the head of a month
AdjustedWithdrawal(in, isWithdrawing, cmw) ==
  IF isWithdrawing /\ ~isRateMode(in) /\ in.inflationAdjustedWithdrawal
  THEN (cmw * monthlyInflationFactor(in)) \div FP
  ELSE cmw

\* rateDeflationMultiplier after the deflation at the head of a month
DeflatedMultiplier(in, isWithdrawing, started, rdm) ==
  IF isWithdrawing /\ isRateMode(in) /\ started
  THEN (rdm * monthlyNominalDeflator(in)) \div FP
  ELSE rdm

\* Variant: the loop over the months runs while month <= 12.
monthLoopContinuesInclusive(m) == m <= MONTHS

\* month < 12, the condition of the loop over the months
monthLoopContinues(m) == m < MONTHS

\* One iteration of the loop over the months.
MonthStep ==
  /\ pc = "monthLoop"
  /\ monthLoopContinues(month)
  /\ LET isContributing == isContributingIn(input, year)
         isWithdrawing == isWithdrawingIn(input, year)
         cmw == AdjustedWithdrawal(input, isWithdrawing, currentMonthlyWithdrawal)
         rdm == DeflatedMultiplier(input, isWithdrawing, rateWithdrawalStarted,
                                   rateDeflationMultiplier)
     IN \E st \in {PathLoop([rng |-> rng, paths |-> paths, costBasis |-> costBasis,
                             yearlyWithdrawals |-> yearlyWithdrawals,
                             initialWithdrawalAmount |-> initialWithdrawalAmount],
                            1, input, isContributing, isWithdrawing, cmw, rdm)} :
        /\ currentMonthlyWithdrawal' = cmw
        /\ rateDeflationMultiplier' = rdm
        /\ rateWithdrawalStarted' =
             IF isWithdrawing /\ isRateMode(input) THEN TRUE ELSE rateWithdrawalStarted
        /\ rng' = st.rng
        /\ paths' = st.paths
        /\ costBasis' = st.costBasis
        /\ yearlyWithdrawals' = st.yearlyWithdrawals
        /\ initialWithdrawalAmount' = st.initialWithdrawalAmount
        /\ totalPrincipal' =
             IF isContributing
             THEN totalPrincipal + (input.monthlyContribution * Unit)
             ELSE totalPrincipal
  /\ month' = month + 1
  /\ UNCHANGED <<pc, input, sorted, yearlyData, year, result, returned, uiVars>>

\* Variant: only negative values count as depleted.
yearDepletionCountStrict(ps, isWithdrawing) ==
  IF isWithdrawing
  THEN Cardinality({i \in 1..NUM_SIMULATIONS : ps[i] < 0})
  ELSE 0

\* yearDepletionCount
yearDepletionCount(ps, isWithdrawing) ==
  IF isWithdrawing
  THEN Cardinality({i \in 1..NUM_SIMULATIONS : ps[i] <= 0})
  ELSE 0

\* The optional fields of a yearly snapshot (object spread).
OptionalFields(isWithdrawing, depletionRate, medianYearlyWithdrawal) ==
  (IF isWithdrawing THEN "depletionRate" :> depletionRate ELSE <<>>)
  @@ (IF IsPresent(medianYearlyWithdrawal)
      THEN "medianYearlyWithdrawal" :> medianYearlyWithdrawal[1] ELSE <<>>)

\* Variant: reported in every year of a rate-mode run.
MedianYearlyWithdrawalAlways(isWithdrawing, yw) ==
  IF IsPresent(yw)
  THEN <<Round(SortAsc(yw)[PctIndex(50)])>>
  ELSE Absent

\* medianYearlyWithdrawal: assigned only if (isWithdrawing && yearlyWithdrawals)
MedianYearlyWithdrawal(isWithdrawing, yw) ==
  IF isWithdrawing /\ IsPresent(yw)
  THEN <<Round(SortAsc(yw)[PctIndex(50)])>>
  ELSE Absent

\* Variant: the running principal total is reported as it is.
reportedPrincipalUncapped(principalTotal, srt) == Round(principalTotal)

\* principal: Math.round(Math.min(totalPrincipal, sorted[floor(N * 0.5)]))
reportedPrincipal(principalTotal, srt) ==
  Round(Min(principalTotal, srt[PctIndex(50)]))

\* The snapshot pushed at the end of a year.  depletionRate is the count k of
\* k / NUM_SIMULATIONS.
YearSnapshot(in, y, ps, srt, yw, principalTotal) ==
  [year |-> y,
   p10 |-> Round(srt[PctIndex(10)]),
   p25 |-> Round(srt[PctIndex(25)]),
   p50 |-> Round(srt[PctIndex(50)]),
   p75 |-> Round(srt[PctIndex(75)]),
   p90 |-> Round(srt[PctIndex(90)]),
   principal |-> reportedPrincipal(principalTotal, srt),
   isContributing |-> isContributingIn(in, y),
   isWithdrawing |-> isWithdrawingIn(in, y)]
  @@ OptionalFields(isWithdrawingIn(in, y),
                    yearDepletionCount(ps, isWithdrawingIn(in, y)),
                    MedianYearlyWithdrawal(isWithdrawingIn(in, y), yw))

\* After the twelfth month: sort, reduce, push the snapshot, next year.
EndYear ==
  /\ pc = "monthLoop"
  /\ ~monthLoopContinues(month)
  /\ sorted' = SortAsc(paths)
  /\ yearlyData' =
       Append(yearlyData,
              YearSnapshot(input, year, paths, sorted', yearlyWithdrawals, totalPrincipal))
  /\ year' = year + 1
  /\ pc' = "yearLoop"
  /\ UNCHANGED <<input, rng, paths, costBasis, yearlyWithdrawals,
                 initialWithdrawalAmount, totalPrincipal, rateDeflationMultiplier,
                 rateWithdrawalStarted, currentMonthlyWithdrawal, month, result,
                 returned, uiVars>>

\* ------------------------------------------------------------- histogram
\* Ten times binWidth = Math.max(p90Val, 1) / NUM_MAIN_BINS, in sub-units.
binWidthTimesMain(srt) == Max(srt[PctIndex(90)], Unit)

\* neededBins = Math.min(Math.ceil(maxVal / binWidth), maxBins)
neededBins(srt) ==
  LET w == binWidthTimesMain(srt)
      maxVal == srt[NUM_SIMULATIONS]
  IN Min(((maxVal * NUM_MAIN_BINS) + w - 1) \div w, NUM_MAIN_BINS + MAX_TAIL_BINS)

\* Variant: the index is not clamped to the last bin.
binIndexUnclamped(srt, x) == (x * NUM_MAIN_BINS) \div binWidthTimesMain(srt)

\* idx = Math.min(Math.floor(x / binWidth), neededBins - 1)
binIndex(srt, x) ==
  Min((x * NUM_MAIN_BINS) \div binWidthTimesMain(srt), neededBins(srt) - 1)

\* rangeEnd = Math.round((b + 1) * binWidth), in currency units
rangeEndOf(srt, b) ==
  ((2 * (b + 1) * binWidthTimesMain(srt)) + (NUM_MAIN_BINS * Unit))
    \div (2 * NUM_MAIN_BINS * Unit)

\* The distribution built from the sorted buffer.
Distribution(srt) ==
  LET depletedCnt == Cardinality({i \in 1..NUM_SIMULATIONS : srt[i] <= 0})
      depleted == IF depletedCnt > 0
                  THEN <<[rangeEnd |-> 0, count |-> depletedCnt, isDepleted |-> TRUE]>>
                  ELSE <<>>
      positive ==
        IF srt[NUM_SIMULATIONS] > 0
        THEN [k \in 1..neededBins(srt) |->
                [rangeEnd |-> rangeEndOf(srt, k - 1),
                 count |-> Cardinality({i \in 1..NUM_SIMULATIONS :
                                          srt[i] > 0 /\ binIndex(srt, srt[i]) = k - 1}),
                 isDepleted |-> FALSE]]
        ELSE <<>>
  IN depleted \o positive

\* Variant: a path at the total principal counts as a failure.
failureCountInclusive(ps, principalTotal) ==
  Cardinality({i \in 1..NUM_SIMULATIONS : ps[i] <= principalTotal})

\* failureCount: paths whose final value is below the total principal
failureCount(ps, principalTotal) ==
  Cardinality({i \in 1..NUM_SIMULATIONS : ps[i] < principalTotal})

\* Variant: the depletionRate of the last snapshot that carries one.
depletionProbabilityOfWindow(yd) ==
  LET ks == {k \in 1..Len(yd) : "depletionRate" \in DOMAIN yd[k]}
  IN IF ks = {} THEN 0
     ELSE yd[CHOOSE k \in ks : \A j \in ks : j <= k].depletionRate

\* yearlyData.at(-1)?.depletionRate ?? 0
depletionProbabilityOf(yd) ==
  IF yd # <<>> /\ "depletionRate" \in DOMAIN yd[Len(yd)]
  THEN yd[Len(yd)].depletionRate ELSE 0

\* After the last year: probabilities, histogram, return value.
Finish ==
  /\ pc = "yearLoop"
  /\ year > totalYears(input)
  /\ result' = <<[yearlyData |-> yearlyData,
                  failureProbability |-> failureCount(paths, totalPrincipal),
                  depletionProbability |-> depletionProbabilityOf(yearlyData),
                  distribution |-> Distribution(sorted)]>>
  /\ pc' = "done"
  /\ UNCHANGED <<input, rng, paths, sorted, costBasis, yearlyWithdrawals,
                 initialWithdrawalAmount, totalPrincipal, yearlyData,
                 rateDeflationMultiplier, rateWithdrawalStarted,
                 currentMonthlyWithdrawal, year, month, returned, uiVars>>

\* The caller takes the result; the invocation's buffers are discarded.  The
\* generator lives in the invocation and goes with it.
Return ==
  /\ pc = "done"
  /\ returned' = returned \cup {<<input, result[1]>>}
  /\ pc' = "idle"
  /\ input' = Absent
  /\ rng' = Absent
  /\ paths' = Absent
  /\ sorted' = Absent
  /\ costBasis' = Absent
  /\ yearlyWithdrawals' = Absent
  /\ initialWithdrawalAmount' = Absent
  /\ totalPrincipal' = 0
  /\ yearlyData' = <<>>
  /\ rateDeflationMultiplier' = FP
  /\ rateWithdrawalStarted' = FALSE
  /\ currentMonthlyWithdrawal' = 0
  /\ year' = 0
  /\ month' = 0
  /\ result' = Absent
  /\ UNCHANGED uiVars

\* ---------------------------------------------------------- specifications
Next ==
  \/ \E in \in MonteCarloInput : Invoke(in)
  \/ BeginYear
  \/ MonthStep
  \/ EndYear
  \/ Finish

\* One invocation, for every input of MonteCarloInput.
Spec == Init /\ [][Next]_vars

\* Inputs of the repeated invocations: both withdrawal modes, volatile paths.
RepeatInputs ==
  {in \in OptionInputs :
     /\ in.volatility > 0
     /\ in.contributionYears = 1
     /\ in.withdrawalStartYear = 0
     /\ in.inflationRate = 0
     /\ in.monthlyPensionIncome = 0
     /\ in.inflationAdjustedWithdrawal = FALSE
     /\ in.monthlyWithdrawal # Absent
     /\ in.annualWithdrawalRate # <<0>>}

NextRepeat ==
  \/ \E in \in RepeatInputs : Invoke(in)
  \/ BeginYear
  \/ MonthStep
  \/ EndYear
  \/ Finish
  \/ Return

\* Invocations one after the other, in any order and any number.
SpecRepeat == Init /\ [][NextRepeat]_vars

\* Inputs of a single withdrawal step in fixed-amount mode: the gross need,
\* the pension and the tax mode vary.
WithdrawalInputs ==
  [initialAmount : {100},
   monthlyContribution : {0},
   annualReturnRate : {5},
   volatility : {0},
   inflationRate : {0},
   contributionYears : {0},
   withdrawalStartYear : {0},
   withdrawalYears : {1},
   taxFree : BOOLEAN,
   monthlyWithdrawal : {<<10>>, <<30>>, <<200>>},
   annualWithdrawalRate : {Absent},
   expenseRatio : {0},
   inflationAdjustedWithdrawal : {FALSE},
   monthlyPensionIncome : {0, 5, 40}]

\* A path of value v > 0 and cost basis c stands before the withdrawal
\* branch of a withdrawing month (all paths alike).
InitWithdrawal ==
  /\ pc = "withdrawal"
  /\ input \in WithdrawalInputs
  /\ rng = mulberry32(SEED)
  /\ paths \in {Filled(v * Unit) : v \in {20, 100, 150}}
  /\ costBasis \in {Filled(c * Unit) : c \in {10, 100, 120}}
  /\ sorted = Filled(0)
  /\ yearlyWithdrawals = Absent
  /\ initialWithdrawalAmount = Absent
  /\ totalPrincipal = input.initialAmount * Unit
  /\ yearlyData = <<InitialSnapshot(input)>>
  /\ rateDeflationMultiplier = FP
  /\ rateWithdrawalStarted = FALSE
  /\ currentMonthlyWithdrawal = monthlyWithdrawalOf(input)
  /\ year = 1
  /\ month = 0
  /\ result = Absent
  /\ returned = {}
  /\ Constructed

\* The withdrawal branch, taken for path 1; the value and cost basis before
\* and after it are recorded.
WithdrawalStep ==
  /\ pc = "withdrawal"
  /\ \E st \in {WithdrawIfDue([rng |-> rng, paths |-> paths, costBasis |-> costBasis,
                                yearlyWithdrawals |-> yearlyWithdrawals,
                                initialWithdrawalAmount |-> initialWithdrawalAmount],
                               1, paths[1], costBasis[1], 0, input, TRUE,
                               currentMonthlyWithdrawal, rateDeflationMultiplier)} :
       /\ paths' = st.paths
       /\ costBasis' = st.costBasis
       /\ returned' = {<<[value |-> paths[1], costBasis |-> costBasis[1], in |-> input],
                         [value |-> st.paths[1], costBasis |-> st.costBasis[1]]>>}
  /\ pc' = "withdrawn"
  /\ UNCHANGED <<input, rng, sorted, yearlyWithdrawals, initialWithdrawalAmount,
                 totalPrincipal, yearlyData, rateDeflationMultiplier,
                 rateWithdrawalStarted, currentMonthlyWithdrawal, year, month, result, uiVars>>

NextWithdrawal == WithdrawalStep

\* One withdrawal step, for every value, cost basis, need, pension and tax mode drawn.
SpecWithdrawal == InitWithdrawal /\ [][NextWithdrawal]_vars

\* Inputs that populate the two withdrawal selectors in different ways, all
\* else equal: a positive rate with and without monthlyWithdrawal, and a
\* rate of 0 with monthlyWithdrawal; inflation makes the inflation
\* adjustment of the fixed amount visible.
ModeInputs ==
  {in \in OptionInputs :
     /\ in.volatility > 0
     /\ in.inflationRate > 0
     /\ in.contributionYears = 0
     /\ in.withdrawalStartYear = 0
     /\ in.monthlyPensionIncome = 0
     /\ in.taxFree = FALSE
     /\ in.annualWithdrawalRate # Absent
     /\ in.annualWithdrawalRate = <<0>> => in.monthlyWithdrawal # Absent}

NextModes ==
  \/ \E in \in ModeInputs : Invoke(in)
  \/ BeginYear
  \/ MonthStep
  \/ EndYear
  \/ Finish
  \/ Return

\* Invocations, one after the other, on the inputs of ModeInputs.
SpecModes == Init /\ [][NextModes]_vars

\* ------------------------------------------------ useMonteCarloSimulator
\* Volatility values the slider is moved to (the slider offers 5..30).
VolatilityChoices == {15, 16}

\* The argument CompoundSimulator passes to the hook, from the state modelled
\* here; the fields held at their defaults are left out.
hookInputOf(vol, tax, mode) ==
  [volatility |-> vol,
   taxFree |-> tax,
   annualWithdrawalRate |-> IF mode = "rate" THEN <<defaultWithdrawalRate>> ELSE Absent,
   monthlyWithdrawal |-> IF mode = "rate" THEN Absent ELSE <<defaultMonthlyWithdrawal>>]

\* The argument of the current render.
HookInput == hookInputOf(volatility, taxFree, withdrawalMode)

\* JSON.stringify(input): the keys present, in order, with their values
inputJson(in) ==
  <<<<"volatility", in.volatility>>, <<"taxFree", in.taxFree>>>>
    \o (IF IsPresent(in.annualWithdrawalRate)
        THEN <<<<"annualWithdrawalRate", in.annualWithdrawalRate[1]>>>>
        ELSE <<>>)
    \o (IF IsPresent(in.monthlyWithdrawal)
        THEN <<<<"monthlyWithdrawal", in.monthlyWithdrawal[1]>>>>
        ELSE <<>>)

\* simulateMonteCarlo(input), as the hook sees it: the engine is a function
\* of its input, so a result is told by the input it was computed from.
ResultOf(in) == [simulated |-> <<in>>]

\* setTimeout(callback closing over `in`, DEBOUNCE_MS), returning `id`
setTimeout(ts, id, in) == ts \cup {[id |-> id, input |-> in, left |-> DEBOUNCE_MS]}

\* Variant: the timer is left pending.
clearTimeoutKeeping(ts, id) == ts

\* clearTimeout(id); an id that is undefined or not pending clears nothing
clearTimeout(ts, id) == {t \in ts : t.id # id}

\* requestImmediate(): immediateNextRef.current = true
requestImmediate(flag) == TRUE

\* The render that follows a state update whose hook argument is `in`, and
\* the effect it triggers, `imm` being immediateNextRef.current by then.  The
\* effect runs when inputJson differs from the previous render's; the cleanup
\* of the previous run, if it returned one, runs first.
Rerender(in, imm) ==
  IF inputJson(in) = inputJson(HookInput)
  THEN /\ immediateNextRef' = imm
       /\ UNCHANGED <<hookResult, timerRef, isFirstRef, effectCleanup, timers,
                      nextTimerId, sinceChange>>
  ELSE \E cleaned \in {IF effectCleanup THEN clearTimeout(timers, timerRef) ELSE timers} :
         IF isFirstRef
         THEN /\ isFirstRef' = FALSE
              /\ effectCleanup' = FALSE
              /\ timers' = cleaned
              /\ immediateNextRef' = imm
              /\ sinceChange' = 0
              /\ UNCHANGED <<hookResult, timerRef, nextTimerId>>
         ELSE /\ sinceChange' = 0
              /\ effectCleanup' = TRUE
              /\ immediateNextRef' = FALSE
              /\ IF imm
                 THEN /\ timers' = clearTimeout(cleaned, timerRef)
                      /\ hookResult' = ResultOf(in)
                      /\ UNCHANGED <<timerRef, nextTimerId>>
                 ELSE /\ timers' = setTimeout(clearTimeout(cleaned, timerRef), nextTimerId, in)
                      /\ timerRef' = nextTimerId
                      /\ nextTimerId' = nextTimerId + 1
                      /\ UNCHANGED hookResult
              /\ UNCHANGED isFirstRef

\* The first render: useState runs the simulation, and the first run of the
\* effect only clears isFirstRef.
FirstRender ==
  /\ hookMounted = "initial"
  /\ hookMounted' = "mounted"
  /\ hookResult' = ResultOf(HookInput)
  /\ isFirstRef' = FALSE
  /\ effectCleanup' = FALSE
  /\ lastOperation' = "firstRender"
  /\ UNCHANGED <<withdrawalMode, taxFree, volatility, timerRef, immediateNextRef,
                 timers, nextTimerId, sinceChange, operations>>
  /\ UNCHANGED <<engineVars, timelineVars>>

\* The volatility slider: onValueChange = setVolatility
SetVolatility(v) ==
  /\ hookMounted = "mounted"
  /\ operations < MaxOperations
  /\ v # volatility
  /\ volatility' = v
  /\ Rerender(hookInputOf(v, taxFree, withdrawalMode), immediateNextRef)
  /\ lastOperation' = "setVolatility"
  /\ operations' = operations + 1
  /\ UNCHANGED <<withdrawalMode, taxFree, hookMounted>>
  /\ UNCHANGED <<engineVars, timelineVars>>

\* A withdrawal-mode button, the selected one included:
\* requestImmediateMC(); setWithdrawalMode(mode)
SelectWithdrawalMode(mode) ==
  /\ hookMounted = "mounted"
  /\ operations < MaxOperations
  /\ withdrawalMode' = mode
  /\ Rerender(hookInputOf(volatility, taxFree, mode), requestImmediate(immediateNextRef))
  /\ lastOperation' = "selectWithdrawalMode"
  /\ operations' = operations + 1
  /\ UNCHANGED <<taxFree, volatility, hookMounted>>
  /\ UNCHANGED <<engineVars, timelineVars>>

\* The tax switch: requestImmediateMC(); setTaxFree(!v)
SwitchTax ==
  /\ hookMounted = "mounted"
  /\ operations < MaxOperations
  /\ taxFree' = ~taxFree
  /\ Rerender(hookInputOf(volatility, ~taxFree, withdrawalMode),
              requestImmediate(immediateNextRef))
  /\ lastOperation' = "switchTax"
  /\ operations' = operations + 1
  /\ UNCHANGED <<withdrawalMode, volatility, hookMounted>>
  /\ UNCHANGED <<engineVars, timelineVars>>

\* DEBOUNCE_MS / DebounceTicks of time pass; a timer that is due runs first.
Tick ==
  /\ hookMounted # "initial"
  /\ \A t \in timers : t.left > 0
  /\ timers # {} \/ sinceChange < DEBOUNCE_MS
  /\ timers' = {[t EXCEPT !.left = @ - (DEBOUNCE_MS \div DebounceTicks)] : t \in timers}
  /\ sinceChange' = Min(sinceChange + (DEBOUNCE_MS \div DebounceTicks), DEBOUNCE_MS)
  /\ lastOperation' = "tick"
  /\ UNCHANGED <<withdrawalMode, taxFree, volatility, hookMounted, hookResult,
                 timerRef, isFirstRef, immediateNextRef, effectCleanup,
                 nextTimerId, operations>>
  /\ UNCHANGED <<engineVars, timelineVars>>

\* A due timer runs its callback: setResult(simulateMonteCarlo(input)), with
\* the input of the render that set it.
TimerFires ==
  /\ \E t \in timers :
       /\ t.left <= 0
       /\ timers' = timers \ {t}
       /\ hookResult' = ResultOf(t.input)
  /\ lastOperation' = "timer"
  /\ UNCHANGED <<withdrawalMode, taxFree, volatility, hookMounted, timerRef,
                 isFirstRef, immediateNextRef, effectCleanup, nextTimerId,
                 sinceChange, operations>>
  /\ UNCHANGED <<engineVars, timelineVars>>

\* The component is removed: the cleanup of the last effect run, if any
Unmount ==
  /\ hookMounted = "mounted"
  /\ hookMounted' = "unmounted"
  /\ timers' = IF effectCleanup THEN clearTimeout(timers, timerRef) ELSE timers
  /\ lastOperation' = "unmount"
  /\ UNCHANGED <<withdrawalMode, taxFree, volatility, hookResult, timerRef,
                 isFirstRef, immediateNextRef, effectCleanup, nextTimerId,
                 sinceChange, operations>>
  /\ UNCHANGED <<engineVars, timelineVars>>

NextHook ==
  \/ FirstRender
  \/ \E v \in VolatilityChoices : SetVolatility(v)
  \/ \E mode \in {"amount", "rate"} : SelectWithdrawalMode(mode)
  \/ SwitchTax
  \/ Tick
  \/ TimerFires
  \/ Unmount

\* The hook under every sequence of at most MaxOperations user operations;
\* the render is not put off for ever, time passes, and a due timer runs.
SpecHook ==
  /\ Init
  /\ [][NextHook]_vars
  /\ WF_vars(FirstRender)
  /\ WF_vars(Tick)
  /\ WF_vars(TimerFires)

\* -------------------------------------------------- InteractiveTimelineBar
\* clientX of the pointer events; barRef's rectangle is [0, BarWidth].
PointerXs == (0 - 1)..(BarWidth + 1)

\* getYearFromClientX: Math.round(clamp((clientX - left) / width, 0, 1) * displayMax)
getYearFromClientX(clientX) ==
  ((2 * Max(0, Min(BarWidth, clientX)) * displayMax) + BarWidth) \div (2 * BarWidth)

Abs(x) == IF x < 0 THEN 0 - x ELSE x

\* const handles = [...]: id and position of the three handles
handles ==
  <<[id |-> "contribution", pos |-> contributionYears],
    [id |-> "withdrawalStart", pos |-> withdrawalStartYear],
    [id |-> "withdrawalEnd", pos |-> withdrawalStartYear + withdrawalYears]>>

\* Math.abs(year - h.pos) < Math.abs(year - closest.pos)
closer(yr, h, closest) == Abs(yr - h.pos) < Abs(yr - closest.pos)

\* the loop of handlePointerDown over handles[from..], closest so far given
RECURSIVE closestFrom(_, _, _)
closestFrom(yr, from, closest) ==
  IF from > Len(handles) THEN closest
  ELSE closestFrom(yr, from + 1,
                   IF closer(yr, handles[from], closest) THEN handles[from] ELSE closest)

handlePointerDown(clientX) ==
  /\ draggingRef' = closestFrom(getYearFromClientX(clientX), 1, handles[1]).id
  /\ UNCHANGED <<contributionYears, withdrawalStartYear, withdrawalYears>>
  /\ UNCHANGED <<engineVars, hookVars>>

\* Math.max(0, Math.min(displayMax - 5, year))
withdrawalStartClamped(yr) == Max(0, Min(displayMax - 5, yr))

handlePointerMove(clientX) ==
  /\ \E yr \in {getYearFromClientX(clientX)} :
       IF draggingRef = "none"
       THEN UNCHANGED <<contributionYears, withdrawalStartYear, withdrawalYears>>
       ELSE IF draggingRef = "contribution"
       THEN /\ contributionYears' = Max(0, Min(displayMax, yr))
            /\ UNCHANGED <<withdrawalStartYear, withdrawalYears>>
       ELSE IF draggingRef = "withdrawalStart"
       THEN /\ withdrawalStartYear' = withdrawalStartClamped(yr)
            /\ UNCHANGED <<contributionYears, withdrawalYears>>
       ELSE /\ withdrawalYears' =
                 Max(5, Min(displayMax - withdrawalStartYear, yr - withdrawalStartYear))
            /\ UNCHANGED <<contributionYears, withdrawalStartYear>>
  /\ UNCHANGED draggingRef
  /\ UNCHANGED <<engineVars, hookVars>>

handlePointerUp ==
  /\ draggingRef' = "none"
  /\ UNCHANGED <<contributionYears, withdrawalStartYear, withdrawalYears>>
  /\ UNCHANGED <<engineVars, hookVars>>

NextTimeline ==
  \/ \E clientX \in PointerXs : handlePointerDown(clientX)
  \/ \E clientX \in PointerXs : handlePointerMove(clientX)
  \/ handlePointerUp

\* The timeline bar under every sequence of pointer events.
SpecTimeline == Init /\ [][NextTimeline]_vars

\* ================================================================= claims
Running == pc # "idle"

HasField(d, f) == f \in DOMAIN d

RECURSIVE SumCounts(_)
SumCounts(bins) ==
  IF bins = <<>> THEN 0 ELSE Head(bins).count + SumCounts(Tail(bins))

\* C1: in every yearly snapshot, year 0 included, p10 <= p25 <= p50 <= p75 <= p90.
PercentilesOrdered ==
  \A k \in 1..Len(yearlyData) :
    /\ yearlyData[k].p10 <= yearlyData[k].p25
    /\ yearlyData[k].p25 <= yearlyData[k].p50
    /\ yearlyData[k].p50 <= yearlyData[k].p75
    /\ yearlyData[k].p75 <= yearlyData[k].p90

\* A finished run with a withdrawing year whose percentiles are spread out.
SpreadSnapshot ==
  /\ pc = "done"
  /\ \E k \in 2..Len(yearlyData) :
       /\ yearlyData[k].isWithdrawing
       /\ yearlyData[k].p10 < yearlyData[k].p50
       /\ yearlyData[k].p50 < yearlyData[k].p90

\* C2: the returned failureProbability is at least the returned
\* depletionProbability (both are counts over NUM_SIMULATIONS).
FailureAtLeastDepletion ==
  pc = "done" => result[1].failureProbability >= result[1].depletionProbability

RepeatedCallsAgree ==
  /\ \A a, b \in returned : a[1] = b[1] => a[2] = b[2]
  /\ pc = "done" => \A a \in returned : a[1] = input => a[2] = result[1]

\* An input is invoked again after an invocation with another input returned.
RepeatedAfterOther ==
  /\ pc = "done"
  /\ \E a \in returned : a[1] = input
  /\ \E b \in returned : b[1] # input

\* C5: yearlyData has totalYears + 1 entries, entry k has year k, and an entry
\* once pushed is not modified.
ExpectedTotalYears ==
  IF input.contributionYears >= input.withdrawalStartYear + input.withdrawalYears
  THEN input.contributionYears
  ELSE input.withdrawalStartYear + input.withdrawalYears

YearlyDataIndexed ==
  /\ \A k \in 1..Len(yearlyData) : yearlyData[k].year = k - 1
  /\ Running => Len(yearlyData) <= ExpectedTotalYears + 1
  /\ pc = "done" => Len(result[1].yearlyData) = ExpectedTotalYears + 1

YearlyDataAppendOnly ==
  (pc' # "idle") =>
    /\ Len(yearlyData') \in {Len(yearlyData), Len(yearlyData) + 1}
    /\ \A k \in 1..Len(yearlyData) : yearlyData'[k] = yearlyData[k]

YearlyDataShape == []YearlyDataIndexed /\ [][YearlyDataAppendOnly]_vars

\* A finished run whose last year lies in the withdrawal window, after the
\* contribution years.
WithdrawalOutlastsContribution ==
  /\ pc = "done"
  /\ input.contributionYears > 0
  /\ input.withdrawalStartYear + input.withdrawalYears > input.contributionYears
  /\ Len(yearlyData) > input.contributionYears + 1

\* C6: in the snapshot of year y >= 1, isContributing = (y <= contributionYears)
\* and isWithdrawing = (withdrawalStartYear < y <= start + withdrawalYears);
\* contributionYears snapshots contribute and withdrawalYears withdraw.
PhaseFlags ==
  /\ \A k \in 2..Len(yearlyData) :
       /\ yearlyData[k].isContributing = (k - 1 <= input.contributionYears)
       /\ yearlyData[k].isWithdrawing =
            (/\ input.withdrawalStartYear < k - 1
             /\ k - 1 <= input.withdrawalStartYear + input.withdrawalYears)
  /\ pc = "done" =>
       /\ Cardinality({k \in 1..Len(yearlyData) : yearlyData[k].isContributing})
            = input.contributionYears
       /\ Cardinality({k \in 1..Len(yearlyData) : yearlyData[k].isWithdrawing})
            = input.withdrawalYears

\* A finished run with a year that both contributes and withdraws.
OverlapYear ==
  /\ pc = "done"
  /\ \E k \in 2..Len(yearlyData) :
       yearlyData[k].isContributing /\ yearlyData[k].isWithdrawing

\* C7: the snapshot of year 0 has all five percentiles and the principal equal
\* to initialAmount, and both flags false.
YearZeroSnapshot ==
  Running =>
    /\ Len(yearlyData) >= 1
    /\ yearlyData[1].year = 0
    /\ yearlyData[1].p10 = input.initialAmount
    /\ yearlyData[1].p25 = input.initialAmount
    /\ yearlyData[1].p50 = input.initialAmount
    /\ yearlyData[1].p75 = input.initialAmount
    /\ yearlyData[1].p90 = input.initialAmount
    /\ yearlyData[1].principal = input.initialAmount
    /\ ~yearlyData[1].isContributing
    /\ ~yearlyData[1].isWithdrawing

\* A finished run that withdraws from year 1 on while contributing.
ImmediateWithdrawalRun ==
  /\ pc = "done"
  /\ input.initialAmount > 0
  /\ input.withdrawalStartYear = 0
  /\ input.withdrawalYears > 0
  /\ input.contributionYears > 0

\* C8: with volatility = 0 all paths hold the same value and the same cost
\* basis after every month, and the five percentiles of every snapshot agree.
ZeroVolatilityCollapses ==
  (Running /\ input.volatility = 0) =>
    /\ \A i, j \in 1..NUM_SIMULATIONS :
         paths[i] = paths[j] /\ costBasis[i] = costBasis[j]
    /\ \A k \in 1..Len(yearlyData) :
         /\ yearlyData[k].p10 = yearlyData[k].p25
         /\ yearlyData[k].p25 = yearlyData[k].p50
         /\ yearlyData[k].p50 = yearlyData[k].p75
         /\ yearlyData[k].p75 = yearlyData[k].p90

\* The end of a year of rate-mode withdrawals with contributions and zero
\* volatility, the paths still holding a value.
ZeroVolatilityWithdrawalYear ==
  /\ pc = "monthLoop"
  /\ month = MONTHS
  /\ input.volatility = 0
  /\ IsPresent(yearlyWithdrawals)
  /\ input.monthlyContribution > 0
  /\ year <= input.contributionYears
  /\ year > input.withdrawalStartYear
  /\ year <= input.withdrawalStartYear + input.withdrawalYears
  /\ paths[1] > 0
  /\ yearlyWithdrawals[1] > 0

\* C9: a snapshot carries depletionRate exactly when it is withdrawing; the
\* value is the number of paths at or below 0 at the end of that year (over
\* NUM_SIMULATIONS); no snapshot carries it when withdrawalYears = 0.
DepletionRateIffWithdrawing ==
  /\ \A k \in 1..Len(yearlyData) :
       /\ HasField(yearlyData[k], "depletionRate") <=> yearlyData[k].isWithdrawing
       /\ HasField(yearlyData[k], "depletionRate") =>
            /\ yearlyData[k].depletionRate \in 0..NUM_SIMULATIONS
            /\ input.withdrawalYears > 0
  /\ (pc = "yearLoop" /\ Len(yearlyData) > 1
        /\ HasField(yearlyData[Len(yearlyData)], "depletionRate")) =>
       yearlyData[Len(yearlyData)].depletionRate
         = Cardinality({i \in 1..NUM_SIMULATIONS : paths[i] <= 0})

\* A withdrawing year just ended with some but not all paths depleted.
PartlyDepletedYear ==
  /\ pc = "yearLoop"
  /\ Len(yearlyData) > 1
  /\ HasField(yearlyData[Len(yearlyData)], "depletionRate")
  /\ yearlyData[Len(yearlyData)].depletionRate > 0
  /\ yearlyData[Len(yearlyData)].depletionRate < NUM_SIMULATIONS

\* C10 as stated: a snapshot carries medianYearlyWithdrawal exactly when it is
\* withdrawing.
MedianIffWithdrawing ==
  \A k \in 1..Len(yearlyData) :
    HasField(yearlyData[k], "medianYearlyWithdrawal") <=> yearlyData[k].isWithdrawing

\* C10 amended: a snapshot carries medianYearlyWithdrawal exactly when it is
\* withdrawing and annualWithdrawalRate is populated and positive.
MedianIffWithdrawingInRateMode ==
  \A k \in 1..Len(yearlyData) :
    HasField(yearlyData[k], "medianYearlyWithdrawal") <=>
      /\ yearlyData[k].isWithdrawing
      /\ IsPresent(input.annualWithdrawalRate)
      /\ input.annualWithdrawalRate[1] > 0

\* A finished fixed-amount run with a withdrawing snapshot that carries no
\* medianYearlyWithdrawal.
WithdrawingSnapshotWithoutMedian ==
  /\ pc = "done"
  /\ IsPresent(input.monthlyWithdrawal)
  /\ ~IsPresent(input.annualWithdrawalRate)
  /\ \E k \in 2..Len(yearlyData) :
       /\ yearlyData[k].isWithdrawing
       /\ ~HasField(yearlyData[k], "medianYearlyWithdrawal")

\* C11: medianYearlyWithdrawal is reported only in rate mode and there in
\* exactly the withdrawing years; the per-path buffer of net withdrawals is
\* all 0 when a year's first month begins, and the value reported for a year
\* is the rounded element at index floor(N/2) of the ascending-sorted buffer
\* as it stands after that year's twelfth month.
MedianOfTheYearOnly ==
  /\ Running =>
       \A k \in 1..Len(yearlyData) :
         HasField(yearlyData[k], "medianYearlyWithdrawal")
           <=> (isRateMode(input) /\ yearlyData[k].isWithdrawing)
  /\ (pc = "monthLoop" /\ month = 0 /\ isRateMode(input))
       => yearlyWithdrawals = Filled(0)
  /\ (pc = "monthLoop" /\ ~isRateMode(input)) => yearlyWithdrawals = Absent
  /\ (pc = "yearLoop" /\ year > 1
        /\ HasField(yearlyData[Len(yearlyData)], "medianYearlyWithdrawal"))
       => yearlyData[Len(yearlyData)].medianYearlyWithdrawal
            = Round(SortAsc(yearlyWithdrawals)[PctIndex(50)])

\* A rate-mode run has reported a positive median for a withdrawing year and
\* has begun a later year, whose buffer is empty again.
MedianThenNextYear ==
  /\ pc = "monthLoop"
  /\ month = 0
  /\ isRateMode(input)
  /\ yearlyData[Len(yearlyData)].isWithdrawing
  /\ HasField(yearlyData[Len(yearlyData)], "medianYearlyWithdrawal")
  /\ yearlyData[Len(yearlyData)].medianYearlyWithdrawal > 0

\* C12: after every simulated month of every year, every path's value is
\* >= 0 (initialAmount and monthlyContribution being >= 0), whatever the
\* withdrawal amount, the tax and the pension are.
PathsNeverNegative ==
  (Running /\ input.initialAmount >= 0 /\ input.monthlyContribution >= 0)
    => \A i \in 1..NUM_SIMULATIONS : paths[i] >= 0

\* A withdrawal larger than the value has been taken from a path that began
\* with a positive amount: the path stands at the floor.
PathFlooredByWithdrawal ==
  /\ pc = "monthLoop"
  /\ month > 0
  /\ input.initialAmount > 0
  /\ isWithdrawingIn(input, year)
  /\ \E i \in 1..NUM_SIMULATIONS : paths[i] = 0

\* C13: for every path and after every simulated month, the path's cost
\* basis does not exceed the path's value, in every phase.
CostBasisAtMostValue ==
  Running => \A i \in 1..NUM_SIMULATIONS : costBasis[i] <= paths[i]

\* C13, as the code has it: after every simulated month every path's cost
\* basis lies between 0 and the principal paid in so far (initialAmount plus
\* the contributions credited); it may exceed the path's value.
CostBasisWithinPrincipal ==
  Running => \A i \in 1..NUM_SIMULATIONS :
               costBasis[i] >= 0 /\ costBasis[i] <= totalPrincipal

\* Before any withdrawal of the run, a month of negative return has left a
\* path's positive value below its cost basis.
ValueBelowBasisAfterLoss ==
  /\ pc = "monthLoop"
  /\ month > 0
  /\ year = 1
  /\ ~isWithdrawingIn(input, 1)
  /\ \E i \in 1..NUM_SIMULATIONS : paths[i] > 0 /\ costBasis[i] > paths[i]

\* C14: no resurrection.  A path whose value is exactly 0 after some month
\* is still 0 after the next step of the run, unless that step is a month
\* in which a contribution is credited (isContributing and
\* monthlyContribution > 0); so it stays 0 up to the first such month.
NoResurrection ==
  [][(Running /\ pc' # "idle") =>
       \A i \in 1..NUM_SIMULATIONS :
         (paths[i] = 0 /\ paths'[i] # 0)
           => /\ pc = "monthLoop"
              /\ month' = month + 1
              /\ isContributingIn(input, year)
              /\ input.monthlyContribution > 0]_vars

\* Every path that began positive was at 0 when the first year ended, and
\* is at 0 after months of growth in the second year.
DepletedPathsStayDepleted ==
  /\ pc = "monthLoop"
  /\ year = 2
  /\ month >= 2
  /\ input.initialAmount > 0
  /\ HasField(yearlyData[2], "depletionRate")
  /\ yearlyData[2].depletionRate = NUM_SIMULATIONS
  /\ \A i \in 1..NUM_SIMULATIONS : paths[i] = 0

\* Both optional selectors are populated.
BothPopulated(in) ==
  IsPresent(in.monthlyWithdrawal) /\ IsPresent(in.annualWithdrawalRate)

\* The two inputs differ at most in the fields of the fixed-amount mode.
SameButAmountFields(a, b) ==
  [a EXCEPT !.monthlyWithdrawal = Absent, !.inflationAdjustedWithdrawal = FALSE]
    = [b EXCEPT !.monthlyWithdrawal = Absent, !.inflationAdjustedWithdrawal = FALSE]

\* The running invocation withdraws in rate mode: the lock-in buffer exists,
\* the fixed amount is never adjusted, and every withdrawing snapshot
\* carries medianYearlyWithdrawal.
RunsInRateMode ==
  /\ IsPresent(initialWithdrawalAmount)
  /\ currentMonthlyWithdrawal = monthlyWithdrawalOf(input)
  /\ \A k \in 1..Len(yearlyData) :
       yearlyData[k].isWithdrawing
         => HasField(yearlyData[k], "medianYearlyWithdrawal")

\* C15: whenever monthlyWithdrawal and annualWithdrawalRate are both
\* populated, whatever their values, rate mode is used: the withdrawals are
\* derived from the rate lock-in, withdrawing snapshots carry
\* medianYearlyWithdrawal, and monthlyWithdrawal and
\* inflationAdjustedWithdrawal have no effect on the result.
BothPopulatedMeansRateMode ==
  /\ (Running /\ BothPopulated(input)) => RunsInRateMode
  /\ \A a, b \in returned :
       (IsPresent(a[1].annualWithdrawalRate) /\ SameButAmountFields(a[1], b[1]))
         => a[2] = b[2]

\* C15, as the code has it: rate mode is used whenever annualWithdrawalRate
\* is populated with a value > 0, monthlyWithdrawal being populated or not;
\* then monthlyWithdrawal and inflationAdjustedWithdrawal have no effect on
\* the result.  With annualWithdrawalRate populated as 0 the fixed-amount
\* mode is used and no snapshot carries medianYearlyWithdrawal.
PositiveRateMeansRateMode ==
  /\ (Running /\ IsPresent(input.annualWithdrawalRate)
        /\ input.annualWithdrawalRate[1] > 0) => RunsInRateMode
  /\ (Running /\ IsPresent(input.annualWithdrawalRate)
        /\ input.annualWithdrawalRate[1] = 0)
       => /\ initialWithdrawalAmount = Absent
          /\ \A k \in 1..Len(yearlyData) :
               ~HasField(yearlyData[k], "medianYearlyWithdrawal")
  /\ \A a, b \in returned :
       (isRateMode(a[1]) /\ SameButAmountFields(a[1], b[1])) => a[2] = b[2]

\* Two runs have returned that differ in the fixed-amount fields only, one
\* with both selectors populated and the adjustment on, one with the rate
\* alone; the withdrawing year reports a positive median.
RateRunsWithAndWithoutAmount ==
  \E a, b \in returned :
    /\ BothPopulated(a[1])
    /\ a[1].annualWithdrawalRate[1] > 0
    /\ a[1].inflationAdjustedWithdrawal
    /\ b[1].monthlyWithdrawal = Absent
    /\ SameButAmountFields(a[1], b[1])
    /\ \E k \in 1..Len(a[2].yearlyData) :
         /\ a[2].yearlyData[k].isWithdrawing
         /\ a[2].yearlyData[k].medianYearlyWithdrawal > 0

\* C16: the distribution of a returned result has a bin with isDepleted
\* exactly if some path's final value is <= 0; that bin is the first one and
\* the only one, its rangeEnd is 0, and its count is the number of paths
\* whose final value is <= 0.
DepletedBinIffDepletedPath ==
  pc = "done" =>
    LET d == result[1].distribution
        cnt == Cardinality({i \in 1..NUM_SIMULATIONS : paths[i] <= 0})
    IN /\ (\E k \in 1..Len(d) : d[k].isDepleted) <=> cnt > 0
       /\ cnt > 0 =>
            /\ d[1].isDepleted
            /\ d[1].rangeEnd = 0
            /\ d[1].count = cnt
            /\ \A k \in 2..Len(d) : ~d[k].isDepleted

\* The non-depleted bins of a distribution, in list order.
NonDepletedBins(d) == SelectSeq(d, LAMBDA b : ~b.isDepleted)

\* C17: the non-depleted bins of a returned distribution have rangeEnd > 0,
\* and their rangeEnd is strictly increasing in list order, also when the
\* final p90 is smaller than 5 currency units.
RangeEndsPositiveIncreasing ==
  pc = "done" =>
    LET bins == NonDepletedBins(result[1].distribution)
    IN /\ \A k \in 1..Len(bins) : bins[k].rangeEnd > 0
       /\ \A k \in 1..(Len(bins) - 1) : bins[k].rangeEnd < bins[k + 1].rangeEnd

\* The last yearly snapshot of the running invocation.
LastSnapshot == yearlyData[Len(yearlyData)]

StateAfterDraws(n) ==
  Add32(<<SEED \div W16, SEED % W16>>,
        Imul(<<n \div W16, n % W16>>, <<27947, 31221>>))

\* The state of the generator after k monthly steps: two calls per path and
\* month.
StateAfterMonths(k) == StateAfterDraws(2 * NUM_SIMULATIONS * k)

\* The buffers as the loop over the paths leaves them in the month that is
\* about to run.
NextMonthOfPaths ==
  PathLoop([rng |-> rng, paths |-> paths, costBasis |-> costBasis,
            yearlyWithdrawals |-> yearlyWithdrawals,
            initialWithdrawalAmount |-> initialWithdrawalAmount],
           1, input, isContributingIn(input, year), isWithdrawingIn(input, year),
           AdjustedWithdrawal(input, isWithdrawingIn(input, year),
                              currentMonthlyWithdrawal),
           DeflatedMultiplier(input, isWithdrawingIn(input, year),
                              rateWithdrawalStarted, rateDeflationMultiplier))

\* C19: for every input drawn (contributionYears = 0, withdrawalYears = 0,
\* volatility = 0, initialAmount = 0 and all year counts 0 included) the run
\* never stops short of its result: the month about to run is computed
\* without a division by 0 and leaves numbers >= 0 in the buffers, the
\* months of a year are counted 0..12, the monthly steps
\* made so far are 12 per finished year plus the months of the current
\* year, 12 * totalYears at the return; and every histogram bin index of a
\* positive final value lies in 0..neededBins-1.
RunsToCompletion ==
  /\ (pc = "monthLoop" /\ monthLoopContinues(month)) =>
       LET st == NextMonthOfPaths
       IN \A i \in 1..NUM_SIMULATIONS :
            st.paths[i] \in Nat /\ st.costBasis[i] \in Nat
  /\ pc = "monthLoop" =>
       /\ month \in 0..MONTHS
       /\ year \in 1..ExpectedTotalYears
       /\ rng = StateAfterMonths((MONTHS * (year - 1)) + month)
  /\ pc = "yearLoop" => rng = StateAfterMonths(MONTHS * (year - 1))
  /\ pc = "done" =>
       /\ IsPresent(result)
       /\ year = ExpectedTotalYears + 1
       /\ rng = StateAfterMonths(MONTHS * ExpectedTotalYears)
       /\ \A i \in 1..NUM_SIMULATIONS :
            sorted[i] > 0 => binIndex(sorted, sorted[i]) \in 0..(neededBins(sorted) - 1)

\* A run without contribution years has returned after a withdrawing year in
\* which some paths reached 0, where the withdrawal divisions are skipped,
\* and others stayed positive and are binned.
ReturnedWithDepletedAndLivePaths ==
  /\ pc = "done"
  /\ input.contributionYears = 0
  /\ input.withdrawalYears > 0
  /\ \E i \in 1..NUM_SIMULATIONS : paths[i] = 0
  /\ \E i \in 1..NUM_SIMULATIONS : paths[i] > 0

\* The year in which the k-th monthly step of a run is made.
YearOfMonth(k) == ((k - 1) \div MONTHS) + 1

\* The k-th monthly step of a run on the input in, applied to the run's
\* variables r after k - 1 steps: the head of the year and of the month, then
\* the loop over the paths.
MonthOfRun(in, k, r) ==
  LET isWithdrawing == isWithdrawingIn(in, YearOfMonth(k))
      cmw == AdjustedWithdrawal(in, isWithdrawing, r.cmw)
      rdm == DeflatedMultiplier(in, isWithdrawing, r.started, r.rdm)
      st == PathLoop([rng |-> r.rng, paths |-> r.paths, costBasis |-> r.costBasis,
                      yearlyWithdrawals |->
                        IF (k - 1) % MONTHS = 0
                        THEN YearlyWithdrawalsReset(r.yearlyWithdrawals)
                        ELSE r.yearlyWithdrawals,
                      initialWithdrawalAmount |-> r.initialWithdrawalAmount],
                     1, in, isContributingIn(in, YearOfMonth(k)), isWithdrawing,
                     cmw, rdm)
  IN [rng |-> st.rng, paths |-> st.paths, costBasis |-> st.costBasis,
      yearlyWithdrawals |-> st.yearlyWithdrawals,
      initialWithdrawalAmount |-> st.initialWithdrawalAmount,
      cmw |-> cmw, rdm |-> rdm,
      started |-> IF isWithdrawing /\ isRateMode(in) THEN TRUE ELSE r.started]

\* The variables of a run on the input in before its first monthly step.
RunStart(in) ==
  [rng |-> mulberry32(SEED),
   paths |-> Filled(in.initialAmount * Unit),
   costBasis |-> Filled(in.initialAmount * Unit),
   yearlyWithdrawals |-> IF isRateMode(in) THEN Filled(0) ELSE Absent,
   initialWithdrawalAmount |-> IF isRateMode(in) THEN Filled(0) ELSE Absent,
   cmw |-> monthlyWithdrawalOf(in), rdm |-> FP, started |-> FALSE]

\* The run's variables after the monthly steps k..n, r being the variables
\* after k - 1 steps.  (The test on nxt has the step computed before the
\* next one is begun.)
RECURSIVE RunFrom(_, _, _, _)
RunFrom(in, r, k, n) ==
  IF k > n THEN r
  ELSE LET nxt == MonthOfRun(in, k, r)
       IN IF nxt.rng = nxt.rng THEN RunFrom(in, nxt, k + 1, n) ELSE r

\* The variables of a run on the input in after k monthly steps.
RunMonths(in, k) == RunFrom(in, RunStart(in), 1, k)

\* The monthly steps the running invocation has made.
MonthsRun ==
  IF pc = "monthLoop" THEN (MONTHS * (year - 1)) + month ELSE MONTHS * (year - 1)

\* The paths of the run that differs from the running one in taxFree = true
\* only, after as many months.
TaxFreePaths == RunMonths([input EXCEPT !.taxFree = TRUE], MonthsRun).paths

\* The two inputs differ in taxFree only, a being the tax-free one.
TaxFreeTwin(a, b) ==
  a.taxFree /\ ~b.taxFree /\ [a EXCEPT !.taxFree = FALSE] = b

\* C20: of two runs whose inputs differ in taxFree only, the tax-free one
\* has, after every month, in every path a value >= that of the same path of
\* the taxed run; and in every year each of its p10, p25, p50, p75, p90 is
\* >= the taxed run's.  (The first conjunct checks that RunMonths retraces
\* the running invocation.)
TaxFreeDominates ==
  /\ (pc \in {"yearLoop", "monthLoop"}) => RunMonths(input, MonthsRun).paths = paths
  /\ (pc \in {"yearLoop", "monthLoop"} /\ ~input.taxFree) =>
       LET free == TaxFreePaths
       IN \A i \in 1..NUM_SIMULATIONS : free[i] >= paths[i]
  /\ \A a, b \in returned :
       TaxFreeTwin(a[1], b[1]) =>
         \A k \in 1..Len(b[2].yearlyData) :
           /\ a[2].yearlyData[k].p10 >= b[2].yearlyData[k].p10
           /\ a[2].yearlyData[k].p25 >= b[2].yearlyData[k].p25
           /\ a[2].yearlyData[k].p50 >= b[2].yearlyData[k].p50
           /\ a[2].yearlyData[k].p75 >= b[2].yearlyData[k].p75
           /\ a[2].yearlyData[k].p90 >= b[2].yearlyData[k].p90

\* The tax-free run has returned, and the taxed run of the same input, in
\* rate mode, is in a withdrawing year with a path that has paid tax: its
\* value is below the same path's of the tax-free run.
TaxedPathBelowTaxFree ==
  /\ pc = "monthLoop"
  /\ month > 0
  /\ ~input.taxFree
  /\ isRateMode(input)
  /\ isWithdrawingIn(input, year)
  /\ \E a \in returned : TaxFreeTwin(a[1], input)
  /\ \E i \in 1..NUM_SIMULATIONS : paths[i] > 0 /\ TaxFreePaths[i] > paths[i]

\* initialAmount + 12 * monthlyContribution * min(y, contributionYears), in
\* sub-units: the principal paid in by the end of year y.
PrincipalPaidIn(in, y) ==
  (in.initialAmount
     + (MONTHS * in.monthlyContribution
          * (IF y <= in.contributionYears THEN y ELSE in.contributionYears))) * Unit

\* C21: failureProbability is the number of paths whose final value is
\* strictly below the total principal, over N; the total principal is
\* initialAmount + 12 * monthlyContribution * contributionYears, whatever was
\* withdrawn, taxed or received as pension.
FailureCountsPathsBelowPrincipal ==
  pc = "done" =>
    /\ totalPrincipal = PrincipalPaidIn(input, input.contributionYears)
    /\ result[1].failureProbability =
         Cardinality({i \in 1..NUM_SIMULATIONS :
                        paths[i] < PrincipalPaidIn(input, input.contributionYears)})

\* A run with contributions and withdrawals has returned; some paths ended
\* below the total principal and some did not.
SomePathsBelowPrincipal ==
  /\ pc = "done"
  /\ input.contributionYears > 0
  /\ input.monthlyContribution > 0
  /\ input.withdrawalYears > 0
  /\ IsPresent(input.monthlyWithdrawal)
  /\ result[1].failureProbability \in 1..(NUM_SIMULATIONS - 1)

\* C22: in every yearly snapshot principal <= p50; the snapshot of year y
\* reports the rounded minimum of the principal paid in by the end of year y,
\* initialAmount + 12 * monthlyContribution * min(y, contributionYears), and
\* the median path value of that year.
PrincipalCappedByMedian ==
  /\ \A k \in 1..Len(yearlyData) :
       /\ yearlyData[k].principal <= yearlyData[k].p50
       /\ yearlyData[k].principal <= Round(PrincipalPaidIn(input, k - 1))
       /\ yearlyData[k].principal
            \in {yearlyData[k].p50, Round(PrincipalPaidIn(input, k - 1))}
  /\ (pc = "yearLoop" /\ year > 1) =>
       /\ totalPrincipal = PrincipalPaidIn(input, year - 1)
       /\ LastSnapshot.principal =
            Round(Min(PrincipalPaidIn(input, year - 1), SortAsc(paths)[PctIndex(50)]))

\* A year of contributions has ended with the median path below the
\* principal paid in: the snapshot reports the median.
MedianBelowPrincipalPaidIn ==
  /\ pc = "yearLoop"
  /\ year > 1
  /\ input.monthlyContribution > 0
  /\ LastSnapshot.isContributing
  /\ LastSnapshot.p50 > 0
  /\ LastSnapshot.principal = LastSnapshot.p50
  /\ LastSnapshot.p50 < Round(totalPrincipal)

\* What one withdrawal step is to leave, from the value v, the cost basis c
\* and the input in (gross need monthlyWithdrawal, pension, tax mode).
ExpectedNet(in) ==
  IF monthlyWithdrawalOf(in) > in.monthlyPensionIncome * Unit
  THEN monthlyWithdrawalOf(in) - (in.monthlyPensionIncome * Unit) ELSE 0

ExpectedTax(v, c, in) ==
  LET gain == IF v > c THEN ((v - c) * FP) \div v ELSE 0
  IN IF in.taxFree THEN 0
     ELSE (((ExpectedNet(in) * gain) \div FP) * TAX_RATE_NUM) \div TAX_RATE_DEN

ExpectedBasis(v, c, in) ==
  LET ratio == IF ExpectedNet(in) >= v THEN FP ELSE (ExpectedNet(in) * FP) \div v
  IN (c * (FP - ratio)) \div FP

ExpectedValue(v, c, in) ==
  IF v - ExpectedNet(in) - ExpectedTax(v, c, in) > 0
  THEN v - ExpectedNet(in) - ExpectedTax(v, c, in) ELSE 0

\* C23: one withdrawal step on a path of value v > 0 and cost basis c leaves
\* the value max(v - net - tax, 0) and the cost basis
\* c * (1 - min(net / v, 1)), with net = max(need - pension, 0) and
\* tax = net * gainRatio * taxRate; so with net = 0 nothing changes, with
\* v <= c or taxFree the value falls by exactly net (floored at 0), and with
\* net >= v value and cost basis become 0.
WithdrawalStepFormulas ==
  \A r \in returned :
    LET v == r[1].value
        c == r[1].costBasis
        in == r[1].in
        net == ExpectedNet(in)
    IN /\ r[2].value = ExpectedValue(v, c, in)
       /\ r[2].costBasis = ExpectedBasis(v, c, in)
       /\ net = 0 => (r[2].value = v /\ r[2].costBasis = c)
       /\ (v <= c \/ in.taxFree) => r[2].value = (IF v > net THEN v - net ELSE 0)
       /\ net >= v => (r[2].value = 0 /\ r[2].costBasis = 0)

\* A taxed withdrawal from a path with a gain has been made: the value fell
\* by more than the net withdrawal and stayed positive.
TaxedWithdrawalMade ==
  \E r \in returned :
    /\ ~r[1].in.taxFree
    /\ r[1].value > r[1].costBasis
    /\ ExpectedNet(r[1].in) > 0
    /\ r[2].value > 0
    /\ r[2].value < r[1].value - ExpectedNet(r[1].in)

\* The deviate drawn for path i in the month about to run: the generator has
\* been called twice for every path before it.
DeviateOfPath(i) ==
  normalRandom(Add32(rng, Imul(<<0, 2 * (i - 1)>>, <<27947, 31221>>))).z

\* The value of path i in the month about to run, after growth and
\* contribution, when the withdrawal test is made.
ValueBeforeWithdrawal(i) ==
  LET grown == (paths[i] * ExpFP(monthlyDrift(input)
                                  + (monthlySigma(input) * DeviateOfPath(i)))) \div FP
  IN IF year <= input.contributionYears
     THEN grown + (input.monthlyContribution * Unit) ELSE grown

\* d^n for the shared monthly factor d, scaled by FP.
RECURSIVE DeflatorPower(_, _)
DeflatorPower(in, n) ==
  IF n = 0 THEN FP
  ELSE (DeflatorPower(in, n - 1) * monthlyNominalDeflator(in)) \div FP

\* The number k of the withdrawing month about to run, counted from the
\* first withdrawing month of the run across year boundaries.
WithdrawingMonthNumber ==
  (MONTHS * (year - input.withdrawalStartYear - 1)) + month + 1

RECURSIVE InflatedAmount(_, _)
InflatedAmount(in, n) ==
  IF n = 0 THEN monthlyWithdrawalOf(in)
  ELSE (InflatedAmount(in, n - 1) * PowTwelfth(in.inflationRate)) \div FP

\* The withdrawing months among the monthly steps the run has made.
WithdrawingMonthsRun ==
  Cardinality({m \in 1..MonthsRun : isWithdrawingIn(input, YearOfMonth(m))})

\* The running amount after the months made so far.
RunningAmountFollowsInflation ==
  (pc \in {"yearLoop", "monthLoop"}) =>
    currentMonthlyWithdrawal =
      IF ~isRateMode(input) /\ input.inflationAdjustedWithdrawal
      THEN InflatedAmount(input, WithdrawingMonthsRun)
      ELSE monthlyWithdrawalOf(input)

\* In a tax-free fixed-amount run, a withdrawing month takes the running
\* amount as adjusted at the head of that month, less the pension, from
\* every path that is positive at the withdrawal test.
AdjustedAmountWithdrawn ==
  (pc = "monthLoop" /\ pc' = "monthLoop" /\ month' = month + 1
     /\ ~isRateMode(input) /\ input.taxFree /\ isWithdrawingIn(input, year)) =>
    \A i \in 1..NUM_SIMULATIONS :
      LET v == ValueBeforeWithdrawal(i)
          net == IF currentMonthlyWithdrawal' > input.monthlyPensionIncome * Unit
                 THEN currentMonthlyWithdrawal' - (input.monthlyPensionIncome * Unit)
                 ELSE 0
      IN paths'[i] = IF v > net THEN v - net ELSE 0

\* C25: in fixed-amount mode with inflationAdjustedWithdrawal the running
\* amount is multiplied by f once in every withdrawing month, before that
\* month's withdrawals, and in no other month, so the k-th withdrawing month
\* withdraws monthlyWithdrawal * f^k; without the flag, or in rate mode, the
\* running amount is monthlyWithdrawal throughout.
InflationAdjustedPerWithdrawingMonth ==
  []RunningAmountFollowsInflation /\ [][AdjustedAmountWithdrawn]_vars

\* A fixed-amount run with the adjustment and inflation, whose withdrawals
\* begin after an idle first year, is some months into the withdrawing
\* year: the running amount has grown, and a path is still positive.
AdjustedAmountGrown ==
  /\ pc = "monthLoop"
  /\ month >= 2
  /\ ~isRateMode(input)
  /\ input.inflationAdjustedWithdrawal
  /\ input.inflationRate > 0
  /\ input.withdrawalStartYear >= 1
  /\ isWithdrawingIn(input, year)
  /\ currentMonthlyWithdrawal > monthlyWithdrawalOf(input)
  /\ currentMonthlyWithdrawal = InflatedAmount(input, month)
  /\ \E i \in 1..NUM_SIMULATIONS : paths[i] > 0

\* The final values of the paths in ascending order.
FinalValues == SortAsc(paths)

\* Ten times the bin width max(final p90, 1) / 10, in sub-units.
FinalWidthTimesTen ==
  IF FinalValues[PctIndex(90)] >= Unit THEN FinalValues[PctIndex(90)] ELSE Unit

\* min(ceil(max final value / w), 15)
FinalBinCount ==
  LET c == ((FinalValues[NUM_SIMULATIONS] * 10) + FinalWidthTimesTen - 1)
             \div FinalWidthTimesTen
  IN IF c <= 15 THEN c ELSE 15

\* min(floor(x / w), binCount - 1)
FinalBinOf(x) ==
  LET b == (x * 10) \div FinalWidthTimesTen
  IN IF b <= FinalBinCount - 1 THEN b ELSE FinalBinCount - 1

\* C26: when some final value is positive, the positive final values are
\* counted in min(ceil(max / w), 15) bins of width w = max(final p90, 1) / 10,
\* the value x in bin min(floor(x / w), binCount - 1); there are never more
\* than 15 non-depleted bins, and at least 10 whenever the final p90 is >= 1.
PositiveValuesBinned ==
  (pc = "done" /\ FinalValues[NUM_SIMULATIONS] > 0) =>
    LET bins == NonDepletedBins(result[1].distribution)
    IN /\ Len(bins) = FinalBinCount
       /\ Len(bins) <= 15
       /\ FinalValues[PctIndex(90)] >= Unit => Len(bins) >= 10
       /\ \A b \in 1..Len(bins) :
            bins[b].count =
              Cardinality({i \in 1..NUM_SIMULATIONS :
                             paths[i] > 0 /\ FinalBinOf(paths[i]) = b - 1})

\* The deviate of path i in the m-th month of any run: the generator has
\* been called 2 * N times in each month before, and twice for each path
\* before i in this month.
ScheduledDeviate(m, i) ==
  LET s == StateAfterDraws((2 * NUM_SIMULATIONS * (m - 1)) + (2 * (i - 1)))
  IN RadiusOf(Scramble3(Scramble2(Scramble1(Add32(s, <<27947, 31221>>)))))
       * CosOf(Scramble3(Scramble2(Scramble1(Add32(Add32(s, <<27947, 31221>>),
                                                   <<27947, 31221>>)))))

\* After m monthly steps the generator has been called 2 * N * m times.
GeneratorCountsMonths ==
  (pc \in {"yearLoop", "monthLoop", "done"}) =>
    rng = StateAfterDraws(2 * NUM_SIMULATIONS * MonthsRun)

\* In a month without withdrawals path i grows by the deviate scheduled for
\* (month, i) and receives the contribution: the deviate does not depend on
\* the input or on the path's value.
PathGrowsByScheduledDeviate ==
  (pc = "monthLoop" /\ pc' = "monthLoop" /\ month' = month + 1
     /\ ~isWithdrawingIn(input, year)) =>
    \A i \in 1..NUM_SIMULATIONS :
      paths'[i] =
        ((paths[i] * ExpFP(monthlyDrift(input)
                            + (monthlySigma(input) * ScheduledDeviate(MonthsRun + 1, i))))
           \div FP)
        + (IF year <= input.contributionYears THEN input.monthlyContribution * Unit ELSE 0)

\* C27: one Gaussian deviate, taking two consecutive uniform deviates, is
\* drawn for every path in every simulated month in path order, depleted or
\* not, whatever the phase, mode and volatility: after m months the
\* generator has been advanced 2 * N * m times, and path i in month m gets
\* the deviate that depends on (m, i) only.
TwoDrawsPerPathAndMonth ==
  []GeneratorCountsMonths /\ [][PathGrowsByScheduledDeviate]_vars

\* A zero-volatility run is in its second year with every path at 0 since
\* the withdrawals of the first year: the months go on drawing for them.
DrawingForDepletedPaths ==
  /\ pc = "monthLoop"
  /\ year = 2
  /\ month >= 1
  /\ input.volatility = 0
  /\ input.initialAmount > 0
  /\ input.monthlyContribution = 0
  /\ \A i \in 1..NUM_SIMULATIONS : paths[i] = 0
  /\ rng = StateAfterDraws(2 * NUM_SIMULATIONS * (MONTHS + month))

\* A pending timer is the only one, was set when the effect last ran, and
\* holds the input of the current render.
OnlyTheLatestTimer ==
  \A t \in timers :
    /\ timers = {t}
    /\ t.input = HookInput
    /\ t.left = DEBOUNCE_MS - sinceChange

DebounceStep ==
  /\ lastOperation' = "firstRender" =>
       /\ hookResult' = [simulated |-> <<HookInput'>>]
       /\ timers' = {}
  /\ (lastOperation' = "setVolatility" /\ ~immediateNextRef) =>
       /\ hookResult' = hookResult
       /\ \E t \in timers' :
            /\ timers' = {t}
            /\ t \notin timers
            /\ t.input = HookInput'
            /\ t.left = DEBOUNCE_MS
  /\ lastOperation' = "tick" => hookResult' = hookResult
  /\ lastOperation' = "timer" =>
       /\ sinceChange = DEBOUNCE_MS
       /\ hookMounted = "mounted"
       /\ hookResult' = [simulated |-> <<HookInput>>]
       /\ timers' = {}
  /\ hookResult' # hookResult => hookResult' = [simulated |-> <<HookInput'>>]
  /\ hookMounted = "unmounted" => hookResult' = hookResult

ResultIsOfLatestInput ==
  hookMounted = "unmounted" \/ hookResult = [simulated |-> <<HookInput>>]

\* C28: the first render computes the result at once and sets no timer; an
\* input change not preceded by requestImmediate runs no simulation, cancels
\* the pending timer and sets one of DEBOUNCE_MS for the new input; the one
\* simulation runs when DEBOUNCE_MS have passed since the last change, with
\* the latest input; the result is only ever replaced by the result of the
\* current input, never after unmount, and once the input stops changing
\* the displayed result is the result of the latest input.
DebouncedToLatestInput ==
  /\ []OnlyTheLatestTimer
  /\ [][DebounceStep]_vars
  /\ <>[]ResultIsOfLatestInput

\* Two slider moves in a row each set a timer; the second one has run and
\* the result is that of the input after both.
BurstSettled ==
  /\ lastOperation = "timer"
  /\ operations = 2
  /\ nextTimerId = 3
  /\ hookMounted = "mounted"
  /\ hookResult = [simulated |-> <<HookInput>>]

ImmediateStep ==
  /\ (lastOperation' \in {"selectWithdrawalMode", "switchTax"}
        /\ inputJson(HookInput') # inputJson(HookInput)) =>
       /\ hookResult' = [simulated |-> <<HookInput'>>]
       /\ timers' = {}
  /\ lastOperation' = "setVolatility" =>
       /\ hookResult' = hookResult
       /\ \E t \in timers' : t.input = HookInput' /\ t.left = DEBOUNCE_MS

\* C29: an input change made by an operation that called requestImmediate
\* is simulated in its effect, the pending timer cancelled; every input
\* change made by an operation that did not call it is debounced by
\* DEBOUNCE_MS, whatever requestImmediate calls came before, one whose
\* state update left the input unchanged included.
ImmediateOnlyForItsOwnChange == [][ImmediateStep]_vars

TimelineBounds ==
  /\ contributionYears \in 0..displayMax
  /\ withdrawalStartYear \in 0..(displayMax - 5)
  /\ withdrawalYears >= 5
  /\ withdrawalStartYear + withdrawalYears <= displayMax

OnlySelectedHandleMoves ==
  /\ contributionYears' # contributionYears =>
       (draggingRef = "contribution"
          /\ UNCHANGED <<withdrawalStartYear, withdrawalYears>>)
  /\ withdrawalStartYear' # withdrawalStartYear =>
       (draggingRef = "withdrawalStart"
          /\ UNCHANGED <<contributionYears, withdrawalYears>>)
  /\ withdrawalYears' # withdrawalYears =>
       (draggingRef = "withdrawalEnd"
          /\ UNCHANGED <<contributionYears, withdrawalStartYear>>)
  /\ draggingRef = "none" =>
       UNCHANGED <<contributionYears, withdrawalStartYear, withdrawalYears>>

\* C30: from the defaults 30 / 30 / 30, under every sequence of pointer
\* events contributionYears stays in 0..70, withdrawalStartYear in 0..65,
\* withdrawalYears >= 5 and withdrawalStartYear + withdrawalYears <= 70; a
\* move changes only the value of the handle taken at pointer down, and
\* nothing when no handle is taken.
TimelineStaysInDisplayRange ==
  []TimelineBounds /\ [][OnlySelectedHandleMoves]_vars
====
